---- MODULE Spec2Model ----
(***************************************************************************)
(* noderegression: asynchronous bisection over Node.js nightly builds.     *)
(*                                                                         *)
(* SpecSearch drives lib/binary-search-async.js on its own, with every     *)
(* comparator and every pair of bounds of the bounded input space.         *)
(* Spec drives index.js: bisectRange and bisectBuilds, which run the same  *)
(* search with the build-testing comparator.                               *)
(***************************************************************************)
EXTENDS Integers, Sequences, FiniteSets, TLC

\* ---------------------------------------------------------------- bounds
MaxLen == 4
MaxBuilds == 3
MaxFetched == 2
MaxDay == 3

\* ------------------------------------------------------------- JS values
\* A JavaScript value, as far as typeof, comparison and Math.floor see it.
\* kind "int", "frac" and "nan" are the values whose typeof is 'number'.
JsVal(k, n) == [kind |-> k, v |-> n]
Undef == JsVal("undefined", 0)
Null == JsVal("null", 0)
Str == JsVal("string", 0)
NaN == JsVal("nan", 0)
Num(n) == JsVal("int", n)
\* the number n + 1/2
Frac(n) == JsVal("frac", n)

IsNumber(x) == x.kind \in {"int", "frac", "nan"}
\* x > 0, x < 0 on numbers; every comparison with NaN is false
\* !(x <= 0) in place of x > 0: true of NaN as well
GtZeroOrNaN(x) == \/ x.kind = "nan"
                  \/ x.kind = "int" /\ x.v > 0
                  \/ x.kind = "frac" /\ x.v >= 0
GtZero(x) == \/ x.kind = "int" /\ x.v > 0
             \/ x.kind = "frac" /\ x.v >= 0
LtZero(x) == x.kind \in {"int", "frac"} /\ x.v < 0
\* Math.floor(x) !== x
NotInteger(x) == x.kind \in {"frac", "nan"}

\* ------------------------------------------------------------------ state
VARIABLES
  mode,        \* which API was called: "search", "bisectRange", "bisectBuilds"
  haystackLen, \* haystack.length of the running search
  cmp,         \* search mode: the comparator, index -> settled value
  argLow,      \* the low argument as passed
  argHigh,     \* the high argument as passed
  hasProgress, \* whether the progress argument is a function
  spc,         \* position of the search
  low,         \* low of the current binarySearchImpl call
  high,        \* high of the current binarySearchImpl call
  mid,         \* index being compared
  inFlight,    \* comparator invocations started and not yet settled
  events,      \* progress calls, comparator invocations and settlements
  found,       \* what binarySearchAsync returned, resolved or threw
  pc,          \* position of bisectRange / bisectBuilds
  good,        \* the good argument of bisectRange
  bad,         \* the bad argument of bisectRange
  cmdArg,      \* the testCmdWithArgs argument
  opts,        \* the options object, as far as it has been read
  warned,      \* console.warn about builds before minBuildDateMs was called
  fetchCount,  \* fetches of the build list started
  allBuilds,   \* what getBuildList resolved with
  dateBuilds,  \* the builds argument of bisectBuilds
  pairs,       \* buildTargetPairs
  agents,      \* keep-alive agents: created, destroyed, and who holds one
  dir,         \* the scratch directory bisectBuilds made for itself
  logged,      \* console.error calls about the scratch directory
  tested,      \* candidates run so far, with the result of each run
  notified,    \* onresult calls so far
  outcome,     \* what the called API resolved or rejected with
  runs,        \* the searches that ran to their end before the current one
  argTargets,  \* the targets argument of getBuildTargetPairs
  index,       \* the JSON body the build index was fetched as
  listOpts,    \* the options argument of getBuildList
  lpc,         \* position of getBuildList
  filtered,    \* what filterAndNormalizeBuilds returned
  listed,      \* what getBuildList resolved or rejected with
  dpc,         \* position of ensureFile / downloadFile
  disk,        \* filePath, partPath, and the missing levels of fileDir
  createdDir,  \* levels of fileDir mkdir created, 0 for undefined
  removeDir,   \* levels the rmdir loop has still to remove
  errPipe,     \* the error caught around pipeline and rename
  fetches,     \* fetch calls of downloadFile
  dlogged,     \* console.error calls of downloadFile
  dresult,     \* what ensureFile resolved or rejected with
  ensures,     \* ensureFile calls so far
  cpc,         \* position of noderegressionMain
  argv,        \* the options parsed so far, in the order they appear
  mainGood,    \* the good local of noderegressionMain
  mainBad,     \* the bad local of noderegressionMain
  logNames,    \* argOpts.log
  quiet,       \* argOpts.quiet
  verbose,     \* argOpts.verbose
  bisectLogs,  \* the bisectLogs array: 0 for options.stdout, i for the
               \* stream created for logNames[i]
  streamState, \* each stream: opening, open, failed, errored, ending, finished
  written,     \* what each stream accepted, in order
  stderr,      \* what was written to options.stderr, in order
  exitCode,    \* the exitCode local
  called,      \* the call of bisectRange and how it settled
  results,     \* onresult calls so far
  exited       \* what noderegressionMain resolved or rejected with

searchVars == <<haystackLen, cmp, argLow, argHigh, hasProgress, spc, low,
                high, mid, inFlight, events, found>>

bisectVars == <<pc, good, bad, cmdArg, opts, warned, fetchCount, allBuilds,
                dateBuilds, pairs, agents, dir, logged, tested, notified,
                outcome>>

listVars == <<index, listOpts, lpc, filtered, listed>>

downloadVars == <<dpc, disk, createdDir, removeDir, errPipe, fetches,
                  dlogged, dresult, ensures>>

cmdVars == <<cpc, argv, mainGood, mainBad, logNames, quiet,
             verbose, bisectLogs, streamState, written, stderr, exitCode,
             called, results, exited>>

otherVars == <<runs, argTargets, listVars, downloadVars, cmdVars>>

nonDownloadVars == <<mode, searchVars, bisectVars, runs, argTargets,
                     listVars, cmdVars>>

nonCmdVars == <<mode, searchVars, bisectVars, runs, argTargets, listVars,
                downloadVars>>

vars == <<mode, searchVars, bisectVars, otherVars>>

\* -------------------------------------------------------------- outcomes
Pending == [state |-> "pending", val |-> Undef, err |-> "none"]
\* a synchronous return of the plain function
Returned(x) == [state |-> "returned", val |-> x, err |-> "none"]
\* a synchronous throw of the plain function
Thrown(e) == [state |-> "thrown", val |-> Undef, err |-> e]
Resolved(x) == [state |-> "resolved", val |-> x, err |-> "none"]
Rejected(e) == [state |-> "rejected", val |-> Undef, err |-> e]

Settled(o) == o.state # "pending"
Failed(o) == o.state \in {"thrown", "rejected"}

Event(e, a, b, r) == [e |-> e, a |-> a, b |-> b, r |-> r]

\* getBuildList called without options
NoListOptions == [strict |-> "unset"]

\* ------------------------------------------------ lib/binary-search-async
\* what a comparator invocation settles to
Fulfil(x) == [threw |-> FALSE, val |-> x, err |-> "none"]
Throw(e) == [threw |-> TRUE, val |-> Undef, err |-> e]

\* low left where the search before ended when no low is passed
LowOfStale(a) == IF a.kind \in {"undefined", "null"} THEN low ELSE a.v

\* low after the argument checks of binarySearchAsync
LowOf(a) == IF a.kind \in {"undefined", "null"} THEN 0 ELSE a.v

\* high after the argument checks, before the clamp
HighOf(a, length) ==
  IF a.kind \in {"undefined", "null"} THEN length - 1 ELSE a.v

\* the error the argument checks throw for one bound, "none" if it passes
BoundError(a) ==
  IF a.kind \in {"undefined", "null"} THEN "none"
  ELSE IF ~IsNumber(a) THEN "TypeError"
  ELSE IF LtZero(a) \/ NotInteger(a) THEN "RangeError"
  ELSE "none"

\* the high end of the range in place of its middle
MidAtHigh(lo, hi) == hi

\* the low end of the range in place of its middle
MidAtLow(lo, hi) == lo

\* mid = low + Math.floor((high - low) / 2)
Mid(lo, hi) == lo + ((hi - lo) \div 2)

\* -i in place of -i - 1
NotFoundNoOffset(i) == Num(-i)

\* -i - 1: "not found, would be inserted at index i"
NotFound(i) == Num(-i - 1)

\* low > length in place of low >= length
LowBeyondStrict(lo, length) == lo > length

\* low >= length: nothing of the haystack is at or after low
LowBeyond(lo, length) == lo >= length

\* the bounds of the recursive calls
NextLow(m) == m + 1
NextHigh(m) == m - 1

\* compare invoked before progress is called
ImplEventsCompareFirst(lo, hi, m) ==
  <<Event("compare", m, m, "none"), Event("progress", lo, hi, "none")>>

\* progress(low, high), then compare(haystack[mid]) is invoked
ImplEvents(lo, hi, m) ==
  <<Event("progress", lo, hi, "none"), Event("compare", m, m, "none")>>

\* the recursion entered without awaiting the comparator
AfterNoAwait(n) == n

\* the comparator invocations in flight once one has been awaited
AfterAwait(n) == n - 1

\* Number.isNaN(compareResult)
IsNaN(x) == x.kind = "nan"

\* binarySearchAsync: the synchronous part, up to the first binarySearchImpl
BinarySearchAsync ==
  /\ spc = "call"
  /\ UNCHANGED <<otherVars, mode, haystackLen, cmp, argLow, argHigh, hasProgress, mid,
                 inFlight, events, bisectVars>>
  /\ IF BoundError(argLow) # "none"
       THEN /\ found' = Thrown(BoundError(argLow))
            /\ spc' = "done"
            /\ UNCHANGED <<low, high>>
     ELSE IF BoundError(argHigh) # "none"
       THEN /\ found' = Thrown(BoundError(argHigh))
            /\ spc' = "done"
            /\ low' = LowOf(argLow)
            /\ UNCHANGED high
     ELSE IF LowBeyond(LowOf(argLow), haystackLen)
       THEN /\ found' = Returned(NotFound(haystackLen))
            /\ spc' = "done"
            /\ low' = LowOf(argLow)
            /\ high' = HighOf(argHigh, haystackLen)
     ELSE /\ low' = LowOf(argLow)
          /\ high' = IF HighOf(argHigh, haystackLen) >= haystackLen
                       THEN haystackLen - 1
                       ELSE HighOf(argHigh, haystackLen)
          /\ spc' = "impl"
          /\ UNCHANGED found

\* binarySearchImpl from its entry to the await of compare(haystack[mid])
BinarySearchImpl ==
  /\ spc = "impl"
  /\ UNCHANGED <<otherVars, mode, haystackLen, cmp, argLow, argHigh, hasProgress, low,
                 high, bisectVars>>
  /\ IF low > high
       THEN /\ found' = Resolved(NotFound(low))
            /\ spc' = "done"
            /\ UNCHANGED <<mid, inFlight, events>>
     ELSE IF ~hasProgress
       THEN \* progress(low, high) on a value that is not a function
            /\ found' = Rejected("TypeError")
            /\ spc' = "done"
            /\ UNCHANGED <<mid, inFlight, events>>
     ELSE /\ mid' = Mid(low, high)
          /\ events' = events \o ImplEvents(low, high, mid')
          /\ inFlight' = inFlight + 1
          /\ spc' = "await"
          /\ UNCHANGED found

\* binarySearchImpl after the await: compare(haystack[mid]) settled with r
CompareSettled(r) ==
  /\ spc = "await"
  /\ inFlight' = AfterAwait(inFlight)
  /\ events' = Append(events,
                 Event("settle", mid, mid,
                       IF r.threw THEN "threw" ELSE r.val.kind))
  /\ UNCHANGED <<otherVars, mode, haystackLen, cmp, argLow, argHigh, hasProgress, mid>>
  /\ IF r.threw
       THEN /\ found' = Rejected(r.err)
            /\ spc' = "done"
            /\ UNCHANGED <<low, high>>
     ELSE IF ~IsNumber(r.val)
       THEN /\ found' = Rejected("TypeError")
            /\ spc' = "done"
            /\ UNCHANGED <<low, high>>
     ELSE IF GtZero(r.val)
       THEN /\ low' = NextLow(mid)
            /\ spc' = "impl"
            /\ UNCHANGED <<high, found>>
     ELSE IF LtZero(r.val)
       THEN /\ high' = NextHigh(mid)
            /\ spc' = "impl"
            /\ UNCHANGED <<low, found>>
     ELSE IF IsNaN(r.val)
       THEN /\ found' = Resolved(r.val)
            /\ spc' = "done"
            /\ UNCHANGED <<low, high>>
     ELSE /\ found' = Resolved(Num(mid))
          /\ spc' = "done"
          /\ UNCHANGED <<low, high>>

\* the comparator of a direct search settles with the value it maps mid to
SearchCompare ==
  /\ mode = "search"
  /\ UNCHANGED bisectVars
  /\ CompareSettled(IF cmp[mid].kind = "reject"
                      THEN Throw("Error")
                      ELSE Fulfil(cmp[mid]))

\* ---------------------------------------------------------------- index.js
\* minBuildDateMs = Date.UTC(2016, 0, 28), as a day number
MinBuildDay == 1

\* '0000-00-00' sorts before every build date, '9999-99-99' after
FirstDay == 0
LastDay == MaxDay + 1

\* a Date argument: the UTC day it falls on and the time within that day
\* (ms = 0 is midnight UTC); or undefined
NoDate == [kind |-> "undefined", day |-> 0, ms |-> 0]
DateOf(d, t) == [kind |-> "date", day |-> d, ms |-> t]

\* date.toISOString().slice(0, 10)
IsoDay(d) == d.day

\* good.getTime() <= minBuildDateMs
NotAfterMinBuildDate(d) ==
  d.day < MinBuildDay \/ (d.day = MinBuildDay /\ d.ms = 0)

\* a build of the list: id is its position in the list it came in
Build(i, d, f) == [id |-> i, date |-> d, files |-> f]

\* filterByDate(builds, after, before)
FilterByDate(builds, after, before) ==
  LET afterStr == IF after.kind = "date" THEN IsoDay(after) ELSE FirstDay
      beforeStr == IF before.kind = "date" THEN IsoDay(before) ELSE LastDay
  IN SelectSeq(builds, LAMBDA b : b.date < afterStr \/ b.date > beforeStr)

\* A string is held as its comma-separated fields: 'a,b' is <<"a", "b">>,
\* 'a' is <<"a">>, '' is <<"">>. A file name has no comma in it.
\* `,${build.files},` between its outer commas: the array joined by commas,
\* an empty array giving the empty string
CommaFiles(files) == IF files = <<>> THEN <<"">> ELSE files

\* commaFiles.includes(ct), ct being `,${t},`: the fields of t are
\* consecutive fields of commaFiles
Includes(fields, t) ==
  \E s \in 0..(Len(fields) - Len(t)) : SubSeq(fields, s + 1, s + Len(t)) = t

\* commaTargets.findIndex((ct) => commaFiles.includes(ct)), 0-based, -1 if none
FindIndex(targets, files) ==
  LET hits == {i \in 1..Len(targets) : Includes(CommaFiles(files), targets[i])}
  IN IF hits = {} THEN -1
     ELSE (CHOOSE i \in hits : \A j \in hits : i <= j) - 1

\* every build yielded, with the first target when none matches
GetBuildTargetPairsAll(builds, targets) ==
  [i \in 1..Len(builds) |->
     [build |-> builds[i],
      target |-> IF FindIndex(targets, builds[i].files) >= 0
                   THEN targets[FindIndex(targets, builds[i].files) + 1]
                   ELSE targets[1]]]

\* [...getBuildTargetPairs(builds, targets)]
GetBuildTargetPairs(builds, targets) ==
  LET matching == SelectSeq(builds,
                            LAMBDA b : FindIndex(targets, b.files) >= 0)
  IN [i \in 1..Len(matching) |->
        [build |-> matching[i],
         target |-> targets[FindIndex(targets, matching[i].files) + 1]]]

\* an agent created whether or not one is already in fetchOptions
EnsureAgentCreatesAnyway(o) ==
  o.proto \in {"https:", "http:"}

\* ensureAgent creates an agent: none supplied and the protocol is http(s)
EnsureAgentCreates(o) ==
  o.agent = "unset" /\ o.proto \in {"https:", "http:"}

\* ensureAgent throws: none supplied and new URL(options.buildBaseUrl) fails
EnsureAgentThrows(o) ==
  o.agent = "unset" /\ o.proto = "invalid"

\* the error of the 'No builds after ... before ...' throw: the message is
\* built with good.toUTCString() and bad.toUTCString()
NoBuildsError(g, b) ==
  IF g.kind = "date" /\ b.kind = "date" THEN "NoBuildsInRange"
  ELSE "TypeError"

\* exit code 125 counted as a bad build
BuildCompareResultSkipIsBad(r) ==
  IF r.threw THEN Throw("RunError")
  ELSE Fulfil(IF r.code = Num(0) THEN Num(1) ELSE Num(-1))

\* the comparator of bisectBuilds, once runNodeBuild settled with r
BuildCompareResult(r) ==
  IF r.threw THEN Throw("RunError")
  ELSE IF r.code = Num(125) THEN Throw("SkipError")
  ELSE Fulfil(IF r.code = Num(0) THEN Num(1) ELSE Num(-1))

\* the rmdir failure leaves the finally block as the new outcome
AfterFinallyEscalates(f, errRm) ==
  IF errRm THEN Rejected("RmdirError") ELSE f

\* the finally block of bisectBuilds, entered with the search settled as f:
\* a failure of rmdir is caught there, so the block completes normally and
\* the outcome it was entered with stands
AfterFinally(f, errRm) == f

\* haystack[j] of a JavaScript array: undefined outside 0..length-1
Defined(seq, j) == j \in 0..(Len(seq) - 1)

\* the id of the first build in place of the build at j
IdAtFirst(seq, j) == IF Defined(seq, j) THEN seq[1].build.id ELSE 0

\* a build id, 0 for undefined
IdAt(seq, j) == IF Defined(seq, j) THEN seq[j + 1].build.id ELSE 0

\* firstBadInd = -found in place of -found - 1
ResultOfShifted(ps, f) ==
  LET firstBadInd == -f.v
  IN IF ~Defined(ps, firstBadInd - 1) \/ ~Defined(ps, firstBadInd)
       THEN [state |-> "rejected", pair |-> <<0, 0>>, err |-> "TypeError"]
       ELSE [state |-> "resolved",
             pair |-> <<IdAt(ps, firstBadInd - 1), IdAt(ps, firstBadInd)>>,
             err |-> "none"]

\* the last lines of bisectBuilds: the pair for what the search resolved with
ResultOf(ps, f) ==
  LET firstBadInd == -f.v - 1
  IN IF ~Defined(ps, firstBadInd - 1) \/ ~Defined(ps, firstBadInd)
       THEN [state |-> "rejected", pair |-> <<0, 0>>, err |-> "TypeError"]
       ELSE [state |-> "resolved",
             pair |-> <<IdAt(ps, firstBadInd - 1), IdAt(ps, firstBadInd)>>,
             err |-> "none"]

NoOutcome == [state |-> "pending", pair |-> <<0, 0>>, err |-> "none"]
Reject(e) == [state |-> "rejected", pair |-> <<0, 0>>, err |-> e]

\* the options before any of it is read, and as the defaults leave it
NoOptions ==
  [kind |-> "undefined", agent |-> "unset", proto |-> "https:",
   exeDir |-> "unset", onrange |-> FALSE, onresult |-> FALSE]

NoAgents == [created |-> 0, destroyed |-> 0, range |-> FALSE, builds |-> FALSE]

\* ------------------------------------------------------ inputs of Spec
Targets == <<<<"linux-x64">>, <<"aix-ppc64">>>>
FileSets == {<<"aix-ppc64", "win-x64-zip">>, <<"win-x64-zip">>}

DateArgs == {NoDate} \cup {DateOf(d, 0) : d \in 1..MaxDay} \cup {DateOf(2, 1)}
CmdArgs == {"valid", "empty", "undefined"}

\* the options argument: absent, not an object, or an object with or
\* without its own agent, over a protocol with or without keep-alive agents
\* or with a buildBaseUrl that is not a URL
OptionArgs ==
  {NoOptions, [NoOptions EXCEPT !.kind = "string"]}
    \cup {[NoOptions EXCEPT !.kind = "object", !.agent = a, !.proto = p] :
            <<a, p>> \in {<<"unset", "https:">>, <<"unset", "file:">>,
                          <<"caller", "https:">>, <<"unset", "invalid">>}}

\* build lists of up to m builds as getBuildList resolves with them:
\* oldest first
BuildListsUpTo(m) ==
  UNION {{[i \in 1..n |-> Build(i, ds[i], fs[i])] :
            ds \in {d \in [1..n -> 1..MaxDay] :
                      \A i \in 1..(n - 1) : d[i] <= d[i + 1]},
            fs \in [1..n -> FileSets]} : n \in 0..m}

\* the lists bisectRange fetches, the lists bisectBuilds is called with
FetchedLists == BuildListsUpTo(MaxFetched)
BuildLists == BuildListsUpTo(MaxBuilds)

\* what runNodeBuild settles with: an exit code, a signal, an error
RunResult(t, c, sig) == [threw |-> t, code |-> c, signal |-> sig]
RunResults ==
  {RunResult(FALSE, Num(c), "none") : c \in {0, 1, 125, 130}}
    \cup {RunResult(FALSE, Null, "SIGTERM"), RunResult(TRUE, Null, "none")}

\* ------------------------------------------------------------ bisectRange
\* bisectRange up to its await of getBuildList
BisectRange ==
  /\ mode = "bisectRange"
  /\ pc = "call"
  /\ \E g \in DateArgs, b \in DateArgs, c \in CmdArgs, o \in OptionArgs :
       /\ good' = g
       /\ bad' = b
       /\ cmdArg' = c
       /\ opts' = IF EnsureAgentCreates(o) /\ c # "undefined"
                       /\ o.kind # "string"
                    THEN [o EXCEPT !.agent = "own"]
                    ELSE o
       /\ IF c = "undefined" \/ o.kind = "string"
            THEN /\ outcome' = Reject("TypeError")
                 /\ pc' = "done"
                 /\ UNCHANGED <<warned, agents, fetchCount>>
            ELSE /\ warned' = (g.kind = "date" /\ NotAfterMinBuildDate(g))
                 /\ IF EnsureAgentThrows(o)
                      THEN /\ outcome' = Reject("InvalidUrl")
                           /\ pc' = "done"
                           /\ UNCHANGED <<agents, fetchCount>>
                      ELSE /\ agents' = IF EnsureAgentCreates(o)
                                          THEN [agents EXCEPT
                                                  !.created = @ + 1,
                                                  !.range = TRUE]
                                          ELSE agents
                           /\ fetchCount' = fetchCount + 1
                           /\ pc' = "range_fetch"
                           /\ UNCHANGED outcome
  /\ UNCHANGED <<otherVars, mode, searchVars, allBuilds, dateBuilds, pairs, dir, logged,
                 tested, notified>>

\* the finally block of bisectRange
DestroyRangeAgent(a) ==
  IF a.range THEN [a EXCEPT !.destroyed = @ + 1] ELSE a

\* getBuildList settled: filterByDate, then bisectBuilds is called
BisectRangeFetched ==
  /\ pc = "range_fetch"
  /\ \/ \* the fetch failed
        /\ outcome' = Reject("FetchError")
        /\ agents' = DestroyRangeAgent(agents)
        /\ pc' = "done"
        /\ UNCHANGED <<allBuilds, dateBuilds>>
     \/ \E bl \in FetchedLists :
          /\ allBuilds' = bl
          /\ dateBuilds' = FilterByDate(bl, good, bad)
          /\ IF Len(dateBuilds') = 0
               THEN /\ outcome' = Reject(NoBuildsError(good, bad))
                    /\ agents' = DestroyRangeAgent(agents)
                    /\ pc' = "done"
               ELSE /\ pc' = "builds_call"
                    /\ UNCHANGED <<outcome, agents>>
  /\ UNCHANGED <<otherVars, mode, searchVars, good, bad, cmdArg, opts, warned,
                 fetchCount, pairs, dir, logged, tested, notified>>

\* bisectBuilds settled inside bisectRange: finally, then the same outcome
BisectRangeFinally ==
  /\ pc = "range_finally"
  /\ agents' = DestroyRangeAgent(agents)
  /\ pc' = "done"
  /\ UNCHANGED <<otherVars, mode, searchVars, good, bad, cmdArg, opts, warned,
                 fetchCount, allBuilds, dateBuilds, pairs, dir, logged,
                 tested, notified, outcome>>

\* ----------------------------------------------------------- bisectBuilds
\* the outcome of bisectBuilds settles bisectRange at once
SettleAtOnce == "done"

\* where bisectBuilds hands its outcome
Settle == IF mode = "bisectRange" THEN "range_finally" ELSE "done"

\* a caller calls bisectBuilds with a build list of its own
CallBisectBuilds ==
  /\ mode = "bisectBuilds"
  /\ pc = "call"
  /\ \E bl \in BuildLists, c \in CmdArgs, o \in OptionArgs :
       /\ dateBuilds' = bl
       /\ cmdArg' = c
       /\ opts' = o
  /\ pc' = "builds_call"
  /\ UNCHANGED <<otherVars, mode, searchVars, good, bad, warned, fetchCount, allBuilds,
                 pairs, agents, dir, logged, tested, notified, outcome>>

\* bisectBuilds up to its first await: randomBytes, or the search
BisectBuilds ==
  /\ pc = "builds_call"
  /\ IF cmdArg # "valid" \/ opts.kind = "string"
       THEN /\ outcome' = Reject("TypeError")
            /\ pc' = Settle
            /\ UNCHANGED <<pairs, opts>>
     ELSE /\ pairs' = GetBuildTargetPairs(dateBuilds, Targets)
          /\ IF Len(pairs') = 0
               THEN /\ outcome' = Reject("NoBuildsForTargets")
                    /\ pc' = Settle
                    /\ UNCHANGED opts
               ELSE /\ \E given \in (IF opts.kind = "object"
                                       THEN BOOLEAN ELSE {FALSE}) :
                         /\ opts' = [opts EXCEPT
                                       !.exeDir = IF given THEN "caller"
                                                  ELSE "unset"]
                         /\ pc' = IF given THEN "builds_search"
                                  ELSE "builds_mkdir"
                    /\ UNCHANGED outcome
  /\ UNCHANGED <<otherVars, mode, searchVars, good, bad, cmdArg, warned, fetchCount,
                 allBuilds, dateBuilds, agents, dir, logged, tested,
                 notified>>

\* randomBytes and mkdir settled
BisectBuildsMkdir ==
  /\ pc = "builds_mkdir"
  /\ \/ /\ dir' = "created"
        /\ opts' = [opts EXCEPT !.exeDir = "own"]
        /\ pc' = "builds_search"
        /\ UNCHANGED outcome
     \/ /\ outcome' = Reject("MkdirError")
        /\ pc' = Settle
        /\ UNCHANGED <<dir, opts>>
  /\ UNCHANGED <<otherVars, mode, searchVars, good, bad, cmdArg, warned, fetchCount,
                 allBuilds, dateBuilds, pairs, agents, logged, tested,
                 notified>>

\* ensureAgent, the listeners, and the call of binarySearchAsync
BisectBuildsSearch ==
  /\ pc = "builds_search"
  /\ spc = "idle"
  /\ IF EnsureAgentThrows(opts)
       THEN /\ outcome' = Reject("InvalidUrl")
            /\ pc' = Settle
            /\ UNCHANGED <<opts, hasProgress, agents, haystackLen, argLow,
                           argHigh, spc>>
       ELSE /\ \E r \in (IF opts.kind = "object" THEN BOOLEAN ELSE {FALSE}),
                    n \in (IF opts.kind = "object" THEN BOOLEAN
                                                  ELSE {FALSE}) :
                   /\ opts' = [opts EXCEPT
                                 !.onrange = r, !.onresult = n,
                                 !.agent = IF EnsureAgentCreates(opts)
                                             THEN "own" ELSE @]
                   /\ hasProgress' = r
            /\ agents' = IF EnsureAgentCreates(opts)
                           THEN [agents EXCEPT !.created = @ + 1,
                                               !.builds = TRUE]
                           ELSE agents
            /\ haystackLen' = Len(pairs)
            /\ argLow' = Undef
            /\ argHigh' = Undef
            /\ spc' = "call"
            /\ pc' = "builds_await"
            /\ UNCHANGED outcome
  /\ UNCHANGED <<otherVars, mode, cmp, low, high, mid, inFlight, events, found, good,
                 bad, cmdArg, warned, fetchCount, allBuilds, dateBuilds,
                 pairs, dir, logged, tested, notified>>

\* the comparator of bisectBuilds: runNodeBuild settled
BuildCompare ==
  /\ mode # "search"
  /\ spc = "await"
  /\ \E r \in RunResults :
       /\ tested' = Append(tested, [index |-> mid, run |-> r])
       /\ notified' = IF ~BuildCompareResult(r).threw /\ opts.onresult
                        THEN Append(notified,
                                    [id |-> IdAt(pairs, mid),
                                     code |-> r.code, signal |-> r.signal])
                        ELSE notified
       /\ CompareSettled(BuildCompareResult(r))
  /\ UNCHANGED <<pc, good, bad, cmdArg, opts, warned, fetchCount, allBuilds,
                 dateBuilds, pairs, agents, dir, logged, outcome>>

\* the search settled: the finally block, then the pair
BisectBuildsSettled ==
  /\ pc = "builds_await"
  /\ spc = "done"
  /\ agents' = IF agents.builds
                 THEN [agents EXCEPT !.destroyed = @ + 1]
                 ELSE agents
  /\ \E errRm \in (IF opts.exeDir = "own" THEN BOOLEAN ELSE {FALSE}) :
       /\ dir' = IF opts.exeDir # "own" THEN dir
                 ELSE IF errRm THEN "removeFailed" ELSE "removed"
       /\ logged' = IF errRm THEN logged + 1 ELSE logged
       /\ outcome' = LET f == AfterFinally(found, errRm)
                     IN IF Failed(f) THEN Reject(f.err)
                        ELSE ResultOf(pairs, f.val)
  /\ pc' = Settle
  /\ UNCHANGED <<otherVars, mode, searchVars, good, bad, cmdArg, opts, warned,
                 fetchCount, allBuilds, dateBuilds, pairs, tested, notified>>

\* ensureFile is not called
DownloadIdle ==
  /\ dpc = "none"
  /\ disk = [file |-> "absent", part |-> "absent", missing |-> 0]
  /\ createdDir = 0
  /\ removeDir = 0
  /\ errPipe = "none"
  /\ fetches = 0
  /\ dlogged = 0
  /\ dresult = Pending
  /\ ensures = 0

\* bisectRange is not invoked
NotCalled == [state |-> "none", good |-> Undef, bad |-> Undef]

\* noderegressionMain is not called
CmdIdle ==
  /\ cpc = "none"
  /\ argv = <<>>
  /\ mainGood = Undef
  /\ mainBad = Undef
  /\ logNames = <<>>
  /\ quiet = 0
  /\ verbose = 0
  /\ bisectLogs = <<>>
  /\ streamState = <<>>
  /\ written = <<>>
  /\ stderr = <<>>
  /\ exitCode = 0
  /\ called = NotCalled
  /\ results = <<>>
  /\ exited = Pending

\* no search has run before, and neither getBuildTargetPairs nor getBuildList
\* nor ensureFile nor noderegressionMain is called
OtherIdle ==
  /\ DownloadIdle
  /\ CmdIdle
  /\ runs = <<>>
  /\ argTargets = <<>>
  /\ index = <<>>
  /\ listOpts = NoListOptions
  /\ lpc = "none"
  /\ filtered = <<>>
  /\ listed = Pending

\* -------------------------------------------------- inputs of SpecSearch
ArgVals == {Undef, Str, Frac(1)}
             \cup {Num(i) : i \in 0..MaxLen}

\* what a comparator may settle to: positive, negative, zero, NaN, a value
\* that is not a number, a rejection
CmpVals == {Num(1), Num(-1), Num(0), NaN, Undef, JsVal("reject", 0)}

InitSearch ==
  /\ mode = "search"
  /\ haystackLen \in 0..MaxLen
  /\ cmp \in [0..(haystackLen - 1) -> CmpVals]
  /\ argLow \in ArgVals
  /\ argHigh \in ArgVals
  /\ hasProgress \in BOOLEAN
  /\ spc = "call"
  /\ low = 0
  /\ high = 0
  /\ mid = 0
  /\ inFlight = 0
  /\ events = <<>>
  /\ found = Pending
  /\ pc = "none"
  /\ good = NoDate
  /\ bad = NoDate
  /\ cmdArg = "undefined"
  /\ opts = NoOptions
  /\ warned = FALSE
  /\ fetchCount = 0
  /\ allBuilds = <<>>
  /\ dateBuilds = <<>>
  /\ pairs = <<>>
  /\ agents = NoAgents
  /\ dir = "none"
  /\ logged = 0
  /\ tested = <<>>
  /\ notified = <<>>
  /\ outcome = NoOutcome
  /\ OtherIdle

NextSearch ==
  \/ BinarySearchAsync
  \/ BinarySearchImpl
  \/ SearchCompare

SpecSearch == InitSearch /\ [][NextSearch]_vars

Init ==
  /\ mode \in {"bisectRange", "bisectBuilds"}
  /\ haystackLen = 0
  /\ cmp = <<>>
  /\ argLow = Undef
  /\ argHigh = Undef
  /\ hasProgress = FALSE
  /\ spc = "idle"
  /\ low = 0
  /\ high = 0
  /\ mid = 0
  /\ inFlight = 0
  /\ events = <<>>
  /\ found = Pending
  /\ pc = "call"
  /\ good = NoDate
  /\ bad = NoDate
  /\ cmdArg = "undefined"
  /\ opts = NoOptions
  /\ warned = FALSE
  /\ fetchCount = 0
  /\ allBuilds = <<>>
  /\ dateBuilds = <<>>
  /\ pairs = <<>>
  /\ agents = NoAgents
  /\ dir = "none"
  /\ logged = 0
  /\ tested = <<>>
  /\ notified = <<>>
  /\ outcome = NoOutcome
  /\ OtherIdle

Next ==
  \/ BisectRange
  \/ BisectRangeFetched
  \/ BisectRangeFinally
  \/ CallBisectBuilds
  \/ BisectBuilds
  \/ BisectBuildsMkdir
  \/ BisectBuildsSearch
  \/ BinarySearchAsync
  \/ BinarySearchImpl
  \/ BuildCompare
  \/ BisectBuildsSettled

Spec == Init /\ [][Next]_vars

\* ================================================================ claims
Min(a, b) == IF a < b THEN a ELSE b

\* a run of a candidate that tested good: exit code 0
TestedGood(t) == ~t.run.threw /\ t.run.code = Num(0)
\* a run that tested bad: a non-zero exit code other than 125
TestedBad(t) ==
  ~t.run.threw /\ t.run.code.kind = "int" /\ t.run.code.v \notin {0, 125}

\* every test run so far agrees with a good/bad boundary at index k
BoundaryAt(k) ==
  \A i \in 1..Len(tested) :
    IF tested[i].index < k THEN TestedGood(tested[i])
    ELSE TestedBad(tested[i])

\* bisectBuilds was called on its own, reached the search, and has settled
BuildsSearched == mode = "bisectBuilds" /\ pc = "done" /\ spc # "idle"

ResolvedPair(g, b) == [state |-> "resolved", pair |-> <<g, b>>, err |-> "none"]

\* C1: when the candidates before index k (0 < k < N) test good and those
\* from k on test bad, bisectBuilds resolves with the builds at k-1 and k.
C1_LastGoodFirstBad ==
  BuildsSearched =>
    \A k \in 1..(Len(pairs) - 1) :
      BoundaryAt(k) =>
        outcome = ResolvedPair(IdAt(pairs, k - 1), IdAt(pairs, k))

\* C1, for the calls that pass an onrange listener
C1_WithOnrange == opts.onrange => C1_LastGoodFirstBad

\* C2: with the boundary at an edge bisectBuilds still resolves: every
\* tested candidate bad gives [undefined, first build], every tested
\* candidate good gives [last build, undefined].
C2_EdgeResolves ==
  (BuildsSearched /\ Len(tested) > 0) =>
    /\ BoundaryAt(0) => outcome = ResolvedPair(0, IdAt(pairs, 0))
    /\ BoundaryAt(Len(pairs)) =>
         outcome = ResolvedPair(IdAt(pairs, Len(pairs) - 1), 0)

\* the builds dated strictly after good and strictly before bad
StrictlyBetween(builds, g, b) ==
  SelectSeq(builds,
            LAMBDA x : /\ g.kind = "date" => x.date > g.day
                       /\ b.kind = "date" => x.date < b.day)

\* C3: the builds bisectRange hands to bisectBuilds are exactly the fetched
\* builds dated strictly after good and strictly before bad, in order; an
\* absent bound excludes nothing.
C3_DateFilterExclusive ==
  (mode = "bisectRange" /\ pc = "builds_call") =>
    dateBuilds = StrictlyBetween(allBuilds, good, bad)

\* a bound that is not midnight UTC, or good not before bad
BadBounds(g, b) ==
  \/ g.kind = "date" /\ g.ms # 0
  \/ b.kind = "date" /\ b.ms # 0
  \/ g.kind = "date" /\ b.kind = "date" /\ g.day >= b.day

\* C4: with a valid test command, bisectRange rejects with a range error
\* and fetches nothing when a bound is not midnight UTC or good does not
\* precede bad.
C4_BoundsRejectedBeforeFetch ==
  (/\ mode = "bisectRange"
   /\ pc # "call"
   /\ cmdArg = "valid"
   /\ opts.kind # "string"
   /\ BadBounds(good, bad)) =>
    /\ fetchCount = 0
    /\ pc = "done"
    /\ outcome = Reject("RangeError")

\* positive before index z, zero at z if z is an index at all, else negative
Monotonic(f, n) ==
  \E z \in 0..n, hasZero \in BOOLEAN :
    \A i \in 0..(n - 1) :
      IF i < z THEN f[i] = Num(1)
      ELSE IF i = z /\ hasZero THEN f[i] = Num(0)
      ELSE f[i] = Num(-1)

\* the index the comparator is zero at, else -(i)-1 for the first negative
\* index i, or the length
Expected(f, n) ==
  IF \E i \in 0..(n - 1) : f[i] = Num(0)
    THEN Num(CHOOSE i \in 0..(n - 1) : f[i] = Num(0))
    ELSE LET negs == {i \in 0..(n - 1) : f[i] = Num(-1)}
             first == IF negs = {} THEN n
                      ELSE CHOOSE i \in negs : \A j \in negs : i <= j
         IN Num(-first - 1)

WholeSequence == argLow = Undef /\ argHigh = Undef

\* C5: over the whole sequence and a monotonic comparator, the search gives
\* the index where the comparator is 0, else -(i)-1 for the smallest index i
\* where it is negative (or the length).
C5_MonotonicSearch ==
  (mode = "search" /\ spc = "done" /\ WholeSequence
     /\ Monotonic(cmp, haystackLen)) =>
    /\ ~Failed(found)
    /\ found.val = Expected(cmp, haystackLen)

\* C5, for the calls that pass a progress function
C5_WithProgress == hasProgress => C5_MonotonicSearch

\* both bounds supplied, non-negative integers, low > high
LowAboveHigh ==
  /\ argLow.kind = "int" /\ argLow.v >= 0
  /\ argHigh.kind = "int" /\ argHigh.v >= 0
  /\ argLow.v > argHigh.v

\* C6 as stated: low > high gives -(low)-1 without invoking the comparator.
C6_LowAboveHighOriginal ==
  (mode = "search" /\ spc = "done" /\ LowAboveHigh) =>
    /\ ~Failed(found)
    /\ found.val = Num(-argLow.v - 1)
    /\ events = <<>>

\* C6 amended: low > high gives -(min(low, length))-1 without invoking the
\* comparator.
C6_LowAboveHigh ==
  (mode = "search" /\ spc = "done" /\ LowAboveHigh) =>
    /\ ~Failed(found)
    /\ found.val = Num(-Min(argLow.v, haystackLen) - 1)
    /\ events = <<>>

C6_Witness ==
  /\ mode = "search" /\ spc = "done" /\ LowAboveHigh
  /\ argLow.v > haystackLen
  /\ haystackLen > 0

ValidBound(a) ==
  a.kind \in {"undefined", "null"} \/ (a.kind = "int" /\ a.v >= 0)

\* C7: on an empty sequence binarySearchAsync returns -1 and calls neither
\* the comparator nor the progress callback.
C7_EmptySequence ==
  (mode = "search" /\ spc = "done" /\ haystackLen = 0
     /\ ValidBound(argLow) /\ ValidBound(argHigh)) =>
    /\ found = Returned(Num(-1))
    /\ events = <<>>

C7_Witness ==
  /\ mode = "search" /\ spc = "done" /\ haystackLen = 0
  /\ WholeSequence
  /\ ~hasProgress

\* C8: once a comparator invocation settles with NaN the search has resolved
\* with NaN and nothing more is invoked.
C8_NaNStops ==
  mode = "search" =>
    \A i \in 1..Len(events) :
      (events[i].e = "settle" /\ events[i].r = "nan") =>
        /\ i = Len(events)
        /\ spc = "done"
        /\ found = Resolved(NaN)

\* NaN on a later probe, with more than one index left in the range
C8_Witness ==
  /\ mode = "search"
  /\ found = Resolved(NaN)
  /\ Len(events) > 3
  /\ low < high

ProgressAt == {i \in 1..Len(events) : events[i].e = "progress"}
CompareAt == {i \in 1..Len(events) : events[i].e = "compare"}

\* C9: every comparator invocation comes right after exactly one progress
\* call whose range contains the probed index, and each progress range is a
\* strictly smaller sub-range of the one before.
C9_ProgressShrinks ==
  mode = "search" =>
    /\ \A i \in CompareAt :
         /\ i > 1
         /\ events[i - 1].e = "progress"
         /\ events[i - 1].a <= events[i].a
         /\ events[i].a <= events[i - 1].b
         /\ i > 2 => events[i - 2].e # "progress"
    /\ Cardinality(ProgressAt) = Cardinality(CompareAt)
    /\ \A i \in ProgressAt, j \in ProgressAt :
         i < j =>
           /\ events[i].a <= events[j].a
           /\ events[j].b <= events[i].b
           /\ events[j].b - events[j].a < events[i].b - events[i].a

C9_Witness ==
  /\ mode = "search"
  /\ Cardinality(ProgressAt) >= 2
  /\ \E i \in ProgressAt : events[i].a > 0

\* C10: at most one comparator invocation is in flight, and between two
\* invocations the earlier one has settled.
C10_OneInFlight ==
  mode # "search" =>
    /\ inFlight <= 1
    /\ \A i \in CompareAt, j \in CompareAt :
         i < j => \E k \in (i + 1)..(j - 1) : events[k].e = "settle"

C10_Witness ==
  /\ mode # "search"
  /\ inFlight = 1
  /\ Len(tested) >= 1

\* binarySearchAsync is called with valid bounds that leave a non-empty
\* range of the sequence to search
NonEmptyRange ==
  /\ ValidBound(argLow) /\ ValidBound(argHigh)
  /\ LowOf(argLow) < haystackLen
  /\ LowOf(argLow) <= HighOf(argHigh, haystackLen)

\* C11: a search over a non-empty range with no progress callback runs its
\* probes as it would with a no-op callback: the comparator is invoked, and
\* the search fails only where a comparator invocation made it fail.
C11_ProgressOptional ==
  (mode = "search" /\ spc = "done" /\ ~hasProgress /\ NonEmptyRange) =>
    /\ CompareAt # {}
    /\ Failed(found) =>
         \E i \in 1..Len(events) :
           events[i].e = "settle" /\ events[i].r \in {"threw", "undefined"}

\* C11, for bisectBuilds: a call without an onrange listener that reaches
\* the search over at least one candidate tests a candidate.
C11_OnrangeOptional ==
  (BuildsSearched /\ ~opts.onrange /\ Len(pairs) > 0) => Len(tested) > 0

RECURSIVE FloorLog2(_)
\* the largest k with 2^k <= n, for n >= 1
FloorLog2(n) == IF n <= 1 THEN 0 ELSE 1 + FloorLog2(n \div 2)

\* the smallest k with 2^k >= n, for n >= 1
CeilLog2(n) == IF n <= 1 THEN 0 ELSE 1 + FloorLog2(n - 1)

\* every comparator invocation so far was on the middle of the range
\* announced just before it
ProbesAtMid ==
  \A i \in CompareAt :
    i > 1 /\ events[i].a = Mid(events[i - 1].a, events[i - 1].b)

\* a search over the whole of a sequence of N >= 1 items, with a progress
\* callback
WholeSearch ==
  mode = "search" /\ WholeSequence /\ hasProgress /\ haystackLen >= 1

\* C13 as stated: a search over N >= 1 candidates never tests more than
\* ceil(log2 N) of them.
C13_CeilLog2Tests ==
  WholeSearch =>
    /\ ProbesAtMid
    /\ Cardinality(CompareAt) <= CeilLog2(haystackLen)

\* C13 amended: a search over N >= 1 candidates tests the middle of each
\* announced range and never tests more than floor(log2 N) + 1 of them.
C13_LogTests ==
  WholeSearch =>
    /\ ProbesAtMid
    /\ Cardinality(CompareAt) <= FloorLog2(haystackLen) + 1

\* the bound is met: three tests over four candidates
C13_Witness ==
  /\ WholeSearch
  /\ spc = "done"
  /\ haystackLen = MaxLen
  /\ Cardinality(CompareAt) = FloorLog2(MaxLen) + 1

\* ------------------------------------------------------ repeated searches
\* searches run to their end before the last one
MaxRuns == 2
\* longest sequence searched repeatedly
MaxRepeatLen == 2

\* no bisection is running
BisectIdle ==
  /\ pc = "none"
  /\ good = NoDate
  /\ bad = NoDate
  /\ cmdArg = "undefined"
  /\ opts = NoOptions
  /\ warned = FALSE
  /\ fetchCount = 0
  /\ allBuilds = <<>>
  /\ dateBuilds = <<>>
  /\ pairs = <<>>
  /\ agents = NoAgents
  /\ dir = "none"
  /\ logged = 0
  /\ tested = <<>>
  /\ notified = <<>>
  /\ outcome = NoOutcome

\* the bounds passed to the searches of one sequence
RepeatArgs == {Undef, Num(0), Num(1)}

\* what the deterministic comparator maps an index to
RepeatCmpVals == {Num(1), Num(-1), Num(0)}

\* a search that ran to its end: the bounds it was called with, what it
\* called and what it gave
Run(lo, hi, ev, f) == [low |-> lo, high |-> hi, events |-> ev, found |-> f]

\* binarySearchAsync is called again, on the same sequence with the same
\* comparator; the locals of the new call are set by the call itself
SearchAgain ==
  /\ mode = "search"
  /\ spc = "done"
  /\ Len(runs) < MaxRuns
  /\ runs' = Append(runs, Run(argLow, argHigh, events, found))
  /\ argLow' \in RepeatArgs
  /\ argHigh' \in RepeatArgs
  /\ spc' = "call"
  /\ events' = <<>>
  /\ found' = Pending
  /\ inFlight' = 0
  /\ UNCHANGED <<mode, haystackLen, cmp, hasProgress, low, high, mid,
                 bisectVars, argTargets, listVars, downloadVars,
                 cmdVars>>

InitRepeat ==
  /\ mode = "search"
  /\ haystackLen \in 0..MaxRepeatLen
  /\ cmp \in [0..(haystackLen - 1) -> RepeatCmpVals]
  /\ argLow \in RepeatArgs
  /\ argHigh \in RepeatArgs
  /\ hasProgress = TRUE
  /\ spc = "call"
  /\ low = 0
  /\ high = 0
  /\ mid = 0
  /\ inFlight = 0
  /\ events = <<>>
  /\ found = Pending
  /\ BisectIdle
  /\ OtherIdle

NextRepeat ==
  \/ BinarySearchAsync
  \/ BinarySearchImpl
  \/ SearchCompare
  \/ SearchAgain

SpecRepeat == InitRepeat /\ [][NextRepeat]_vars

\* the searches that have ended, the current one included once it has
EndedRuns ==
  IF spc = "done" THEN Append(runs, Run(argLow, argHigh, events, found))
  ELSE runs

MaxIndex == 3

\* a version string 'vMAJOR.MINOR.PATCH-nightlyYYYYMMDDCOMMIT' by its parts;
\* nightly is FALSE for a string that has the leading 'vMAJOR.' and then
\* departs from the pattern
Version(ma, mi, pa, n, c) ==
  [major |-> ma, minor |-> mi, patch |-> pa, nightly |-> n, commit |-> c]

\* an entry of index.json: its version and its date field, as a day number
Entry(v, d) == [version |-> v, date |-> d]

\* missingCommits and nonMasterCommits, one commit standing for each set
MissingCommits == {"m"}
NonMasterCommits == {"n"}

\* commitOrderByDate: every date it knows has two commits
CommitOrderByDate == [d \in {2} |-> <<"b", "a">>]

\* build.version.startsWith('v0.')
StartsWithV0(v) == v.major = 0

\* a version the pattern of parseBuildVersion is taken to match anyway
ParseNeverThrows(v) == FALSE

\* parseBuildVersion(version) throws: the pattern does not match
ParseThrows(v) == ~v.nightly

\* parseBuildVersion(version), for a version the pattern matches
ParseBuildVersion(v) ==
  [minor |-> v.minor, patch |-> v.patch, commit |-> v.commit]

\* patch !== 0 left out of the test
NotOnMasterMinorOnly(p) == p.minor # 0 \/ p.commit \in NonMasterCommits

\* minor !== 0 || patch !== 0 || nonMasterCommits.has(commit)
NotOnMaster(p) ==
  p.minor # 0 \/ p.patch # 0 \/ p.commit \in NonMasterCommits

\* no commit counts as seen
CommitNeverSeen(kept, c) == FALSE

\* commitToVersion.get(commit) is set: a build kept so far has the commit
CommitSeen(kept, c) ==
  \E k \in 1..Len(kept) : ParseBuildVersion(kept[k].version).commit = c

FilterFailed == [threw |-> TRUE, err |-> "BadVersion", builds |-> <<>>]

RECURSIVE FilterFrom(_, _, _)
\* builds.filter(callback) from the i-th build on, kept being the builds the
\* callback returned true for so far
FilterFrom(bs, i, kept) ==
  IF i > Len(bs) THEN [threw |-> FALSE, err |-> "none", builds |-> kept]
  ELSE IF StartsWithV0(bs[i].version) THEN FilterFrom(bs, i + 1, kept)
  ELSE IF ParseThrows(bs[i].version) THEN FilterFailed
  ELSE LET p == ParseBuildVersion(bs[i].version)
       IN IF NotOnMaster(p) THEN FilterFrom(bs, i + 1, kept)
          ELSE IF p.commit \in MissingCommits
            THEN FilterFrom(bs, i + 1, kept)
          ELSE IF CommitSeen(kept, p.commit)
            THEN FilterFrom(bs, i + 1, kept)
          ELSE FilterFrom(bs, i + 1, Append(kept, bs[i]))

\* filterAndNormalizeBuilds(builds)
FilterAndNormalizeBuilds(bs) == FilterFrom(bs, 1, <<>>)

\* builds[j] of a JavaScript array, j counted from 0
At(bs, j) == bs[j + 1]

\* -1 read as the first position
IndexOfOrFirst(order, c) ==
  LET at == {k \in 1..Len(order) : order[k] = c}
  IN IF at = {} THEN 0 ELSE (CHOOSE k \in at : \A l \in at : k <= l) - 1

\* commitOrder.indexOf(commit), counted from 0, -1 when absent
IndexOf(order, c) ==
  LET at == {k \in 1..Len(order) : order[k] = c}
  IN IF at = {} THEN -1 ELSE (CHOOSE k \in at : \A l \in at : k <= l) - 1

ReorderFailed(e) == [threw |-> TRUE, err |-> e, builds |-> <<>>]

RECURSIVE ReorderSlice(_, _, _, _, _)
\* the loop of reorderRange from the k-th build of the slice on
ReorderSlice(bs, slice, k, start, commitOrder) ==
  IF k > Len(slice) THEN [threw |-> FALSE, err |-> "none", builds |-> bs]
  ELSE LET commit == ParseBuildVersion(slice[k].version).commit
           pos == IndexOf(commitOrder, commit)
       IN IF pos < 0 THEN ReorderFailed("CommitNotFound")
          ELSE ReorderSlice([bs EXCEPT ![start + pos + 1] = slice[k]],
                            slice, k + 1, start, commitOrder)

\* reorderRange(builds, start, end, commitOrder)
ReorderRange(bs, start, end, commitOrder) ==
  ReorderSlice(bs, SubSeq(bs, start + 1, end), 1, start, commitOrder)

\* two dates are never taken to be the same
DateSameNever(a, b) == FALSE

\* build.date === prevBuild.date
DateSame(a, b) == a = b

\* build.date > prevBuild.date only when more than a day later
DateAfterByTwo(a, b) == a > b + 1

\* build.date > prevBuild.date
DateAfter(a, b) == a > b

\* !commitOrder: commitOrderByDate has nothing for the date
NoOrdering(d) == d \notin DOMAIN CommitOrderByDate

RECURSIVE LastSame(_, _, _)
\* lastSame after the while loop entered with lastSame = j
LastSame(bs, j, d) ==
  IF j < Len(bs) /\ At(bs, j).date = d THEN LastSame(bs, j + 1, d) ELSE j

\* the list left newest first
ReverseKeeps(bs) == bs

\* builds.reverse()
Reverse(bs) == [k \in 1..Len(bs) |-> bs[Len(bs) + 1 - k]]

RECURSIVE ReorderFrom(_, _)
\* the for loop of reorderBuilds from index i on, then builds.reverse()
ReorderFrom(bs, i) ==
  IF i >= Len(bs)
    THEN [threw |-> FALSE, err |-> "none", builds |-> Reverse(bs)]
  ELSE IF DateAfter(At(bs, i).date, At(bs, i - 1).date)
    THEN ReorderFailed("NotDecreasing")
  ELSE IF DateSame(At(bs, i).date, At(bs, i - 1).date)
    THEN IF NoOrdering(At(bs, i).date)
           THEN ReorderFailed("NoKnownOrdering")
         ELSE LET commitOrder == CommitOrderByDate[At(bs, i).date]
                  lastSame == LastSame(bs, i + 1, At(bs, i).date)
                  ranged == ReorderRange(bs, i - 1, lastSame, commitOrder)
              IN IF Len(commitOrder) # lastSame - i + 1
                   THEN ReorderFailed("ClusterCount")
                 ELSE IF ranged.threw THEN ranged
                 ELSE ReorderFrom(ranged.builds, lastSame)
  ELSE ReorderFrom(bs, i + 1)

\* reorderBuilds(builds)
ReorderBuilds(bs) == ReorderFrom(bs, 1)

\* the options getBuildList is called with: none, or some with a strict
\* property, which nothing in get-build-list.js reads
ListOptions == {NoListOptions, [strict |-> "true"], [strict |-> "false"]}

\* versions the filter has a rule for, or the pattern does not match
OddVersions ==
  {Version(0, 12, 0, TRUE, "a"), Version(0, 10, 0, FALSE, "a"),
   Version(1, 1, 0, TRUE, "a"), Version(1, 0, 1, TRUE, "b"),
   Version(1, 0, 0, FALSE, "a"), Version(1, 0, 0, TRUE, "m"),
   Version(1, 0, 0, TRUE, "n")}

IndexEntries ==
  {Entry(Version(1, 0, 0, TRUE, c), d) : c \in {"a", "b", "c"}, d \in 1..MaxDay}
    \cup {Entry(v, 1) : v \in OddVersions}

\* the bodies index.json may have
Indexes == UNION {[1..n -> IndexEntries] : n \in 0..MaxIndex}

\* no search is running
SearchIdle ==
  /\ haystackLen = 0
  /\ cmp = <<>>
  /\ argLow = Undef
  /\ argHigh = Undef
  /\ hasProgress = FALSE
  /\ spc = "idle"
  /\ low = 0
  /\ high = 0
  /\ mid = 0
  /\ inFlight = 0
  /\ events = <<>>
  /\ found = Pending

\* getBuildList up to the await of fetch(buildIndexUrl, options)
GetBuildList ==
  /\ lpc = "call"
  /\ listOpts' \in ListOptions
  /\ lpc' = "fetch"
  /\ UNCHANGED <<mode, searchVars, bisectVars, runs, argTargets,
                 downloadVars, cmdVars, index,
                 filtered, listed>>

\* fetch settled: it rejected, or the response is not ok, or it is
GetBuildListFetched ==
  /\ lpc = "fetch"
  /\ \E r \in {"FetchError", "HttpStatus", "ok"} :
       IF r = "ok" THEN lpc' = "json" /\ UNCHANGED listed
       ELSE lpc' = "done" /\ listed' = Rejected(r)
  /\ UNCHANGED <<mode, searchVars, bisectVars, runs, argTargets,
                 downloadVars, cmdVars, index,
                 listOpts, filtered>>

\* res.json() settled: it rejected, or gave the body
GetBuildListJson ==
  /\ lpc = "json"
  /\ \/ /\ lpc' = "done"
        /\ listed' = Rejected("BadJson")
        /\ UNCHANGED index
     \/ /\ index' \in Indexes
        /\ lpc' = "filter"
        /\ UNCHANGED listed
  /\ UNCHANGED <<mode, searchVars, bisectVars, runs, argTargets,
                 downloadVars, cmdVars, listOpts,
                 filtered>>

\* const builds = filterAndNormalizeBuilds(allBuilds), or the catch
GetBuildListFilter ==
  /\ lpc = "filter"
  /\ LET r == FilterAndNormalizeBuilds(index)
     IN IF r.threw
          THEN /\ listed' = Rejected(r.err)
               /\ lpc' = "done"
               /\ UNCHANGED filtered
        ELSE /\ filtered' = r.builds
             /\ lpc' = "reorder"
             /\ UNCHANGED listed
  /\ UNCHANGED <<mode, searchVars, bisectVars, runs, argTargets,
                 downloadVars, cmdVars, index,
                 listOpts>>

\* reorderBuilds(builds); return builds, or the catch
GetBuildListReorder ==
  /\ lpc = "reorder"
  /\ LET r == ReorderBuilds(filtered)
     IN listed' = IF r.threw THEN Rejected(r.err) ELSE Resolved(r.builds)
  /\ lpc' = "done"
  /\ UNCHANGED <<mode, searchVars, bisectVars, runs, argTargets,
                 downloadVars, cmdVars, index,
                 listOpts, filtered>>

InitList ==
  /\ mode = "getBuildList"
  /\ SearchIdle
  /\ CmdIdle
  /\ BisectIdle
  /\ DownloadIdle
  /\ runs = <<>>
  /\ argTargets = <<>>
  /\ index = <<>>
  /\ listOpts = NoListOptions
  /\ lpc = "call"
  /\ filtered = <<>>
  /\ listed = Pending

NextList ==
  \/ GetBuildList
  \/ GetBuildListFetched
  \/ GetBuildListJson
  \/ GetBuildListFilter
  \/ GetBuildListReorder

SpecList == InitList /\ [][NextList]_vars

\* ------------------------------------------------ claims on getBuildList
CommitOf(b) == b.version.commit

\* getBuildList has settled after reorderBuilds ran on the filtered builds
ReorderRan ==
  /\ mode = "getBuildList"
  /\ lpc = "done"
  /\ listed.err \notin {"FetchError", "HttpStatus", "BadJson", "BadVersion"}

\* C14: a list getBuildList resolves with has no two builds with the same
\* commit and is ordered oldest first, by non-decreasing date.
C14_UniqueOldestFirst ==
  (mode = "getBuildList" /\ listed.state = "resolved") =>
    /\ \A i \in 1..Len(listed.val), j \in 1..Len(listed.val) :
         i # j => CommitOf(listed.val[i]) # CommitOf(listed.val[j])
    /\ \A i \in 1..(Len(listed.val) - 1) :
         listed.val[i].date <= listed.val[i + 1].date

\* a commit built on two days, and builds listed newest first
C14_Witness ==
  /\ mode = "getBuildList"
  /\ listed.state = "resolved"
  /\ Len(index) = 3
  /\ Len(listed.val) = 2
  /\ listed.val[1].date < listed.val[2].date
  /\ CommitOf(index[1]) = CommitOf(index[2])

\* the builds of bs at the positions keep holds of, in order
Keeping(bs, keep(_)) ==
  LET at == SelectSeq([i \in 1..Len(bs) |-> i], keep)
  IN [k \in 1..Len(at) |-> bs[at[k]]]

\* not v0.x, minor and patch both 0, commit in neither deny-list
PassesRules(b) ==
  /\ b.version.major # 0
  /\ b.version.minor = 0
  /\ b.version.patch = 0
  /\ CommitOf(b) \notin (MissingCommits \cup NonMasterCommits)

\* filterAndNormalizeBuilds has just returned
Filtered == mode = "getBuildList" /\ lpc = "reorder"

\* C15 as stated: the result is the input's builds that pass the rules and
\* are the first build of the input carrying their commit.
C15_FirstOfInput ==
  Filtered =>
    filtered =
      Keeping(index,
              LAMBDA i : /\ PassesRules(index[i])
                         /\ \A j \in 1..(i - 1) :
                              index[j].version.nightly =>
                                CommitOf(index[j]) # CommitOf(index[i]))

\* C15 amended: the result is the input's builds that pass the rules and
\* are the first of the builds passing the rules to carry their commit.
C15_FirstOfPassing ==
  Filtered =>
    filtered =
      Keeping(index,
              LAMBDA i : /\ PassesRules(index[i])
                         /\ \A j \in 1..(i - 1) :
                              PassesRules(index[j]) =>
                                CommitOf(index[j]) # CommitOf(index[i]))

\* a build kept although a build dropped for its minor version came before
\* it with the same commit
C15_Witness ==
  /\ Filtered
  /\ Len(index) = 3
  /\ Len(filtered) = 2
  /\ index[1].version = Version(1, 1, 0, TRUE, "a")
  /\ index[3].version = Version(1, 0, 0, TRUE, "a")
  /\ filtered[2] = index[3]

\* an entry outside v0.x whose version does not match the nightly pattern
Malformed(e) == e.version.major # 0 /\ ~e.version.nightly

\* C16: when an entry of the index outside v0.x has a version that does not
\* match the nightly pattern, getBuildList rejects and keeps no build.
C16_MalformedRejects ==
  (/\ mode = "getBuildList"
   /\ lpc \in {"reorder", "done"}
   /\ \E i \in 1..Len(index) : Malformed(index[i])) =>
    /\ lpc = "done"
    /\ listed.state = "rejected"
    /\ filtered = <<>>

\* the malformed entry comes last, after a build that passes every rule
C16_Witness ==
  /\ mode = "getBuildList"
  /\ lpc = "done"
  /\ Len(index) = 3
  /\ PassesRules(index[1]) /\ index[1].version.nightly
  /\ Malformed(index[3])

\* some build of the filtered list is dated later than the build before it
DateIncreases ==
  \E i \in 2..Len(filtered) : filtered[i].date > filtered[i - 1].date

\* C17: reorderBuilds fails, and returns no list, whenever some build of
\* the filtered newest-first list is dated later than the build before it.
C17_IncreaseFails ==
  (ReorderRan /\ DateIncreases) => listed.state = "rejected"

\* the increase comes last, after a pair in decreasing order
C17_Witness ==
  /\ ReorderRan
  /\ Len(filtered) = 3
  /\ filtered[2].date < filtered[1].date
  /\ filtered[3].date > filtered[2].date

\* positions s..e of the filtered list hold a same-date cluster: two or
\* more consecutive builds of one date, with no build of that date next to
\* them
Cluster(s, e) ==
  /\ 1 <= s /\ s < e /\ e <= Len(filtered)
  /\ \A k \in s..e : filtered[k].date = filtered[s].date
  /\ s > 1 => filtered[s - 1].date # filtered[s].date
  /\ e < Len(filtered) => filtered[e + 1].date # filtered[s].date

Positions == 1..Len(filtered)

\* there is a cluster on a date the ordering table has no entry for
UnknownCluster ==
  \E s \in Positions, e \in Positions :
    Cluster(s, e) /\ filtered[s].date \notin DOMAIN CommitOrderByDate

\* the filtered list is in non-increasing order of date and the ordering
\* table has no entry for any of its clusters
OnlyUnknownClusters ==
  /\ ~DateIncreases
  /\ \A s \in Positions, e \in Positions :
       Cluster(s, e) => filtered[s].date \notin DOMAIN CommitOrderByDate

InOrder(order) == {order[k] : k \in 1..Len(order)}

\* a cluster on a date the table has an entry for that differs from the
\* entry in size or has a commit the entry does not
MismatchedCluster ==
  \E s \in Positions, e \in Positions :
    /\ Cluster(s, e)
    /\ filtered[s].date \in DOMAIN CommitOrderByDate
    /\ \/ e - s + 1 # Len(CommitOrderByDate[filtered[s].date])
       \/ \E k \in s..e :
            CommitOf(filtered[k])
              \notin InOrder(CommitOrderByDate[filtered[s].date])

\* C19: for a cluster whose date has a table entry, reorderBuilds fails
\* unless the cluster has as many builds as the entry has commits and every
\* build's commit is in the entry.
C19_MismatchFails ==
  (ReorderRan /\ MismatchedCluster) => listed.state = "rejected"

\* a cluster of the right size with a commit the entry does not have
C19_Witness ==
  /\ ReorderRan
  /\ MismatchedCluster
  /\ listed = Rejected("CommitNotFound")

\* a cluster of three on a date whose entry has two commits
C19_CountWitness ==
  /\ ReorderRan
  /\ MismatchedCluster
  /\ listed = Rejected("ClusterCount")

\* ------------------------------------------ getBuildTargetPairs on its own
\* most builds, most targets and most files of a build
MaxPairBuilds == 2
MaxTargets == 2
MaxFiles == 2

\* the target strings 'a', 'b', 'a,b' and ''
TargetStrings == {<<"a">>, <<"b">>, <<"a", "b">>, <<"">>}

\* the target preference lists
TargetLists == UNION {[1..n -> TargetStrings] : n \in 0..MaxTargets}

\* the files arrays of a build
FileLists == UNION {[1..n -> {"a", "b"}] : n \in 0..MaxFiles}

\* the build lists: builds of one date that differ in their files
PairBuildLists ==
  UNION {{[i \in 1..n |-> Build(i, MinBuildDay, fs[i])] :
            fs \in [1..n -> FileLists]} : n \in 0..MaxPairBuilds}

\* [...getBuildTargetPairs(builds, targets)] is evaluated
CallGetBuildTargetPairs ==
  /\ mode = "getBuildTargetPairs"
  /\ pc = "call"
  /\ pairs' = GetBuildTargetPairs(dateBuilds, argTargets)
  /\ pc' = "done"
  /\ UNCHANGED <<mode, searchVars, good, bad, cmdArg, opts, warned,
                 fetchCount, allBuilds, dateBuilds, agents, dir, logged,
                 tested, notified, outcome, otherVars>>

InitTargets ==
  /\ mode = "getBuildTargetPairs"
  /\ SearchIdle
  /\ CmdIdle
  /\ DownloadIdle
  /\ pc = "call"
  /\ good = NoDate
  /\ bad = NoDate
  /\ cmdArg = "undefined"
  /\ opts = NoOptions
  /\ warned = FALSE
  /\ fetchCount = 0
  /\ allBuilds = <<>>
  /\ dateBuilds \in PairBuildLists
  /\ pairs = <<>>
  /\ agents = NoAgents
  /\ dir = "none"
  /\ logged = 0
  /\ tested = <<>>
  /\ notified = <<>>
  /\ outcome = NoOutcome
  /\ runs = <<>>
  /\ argTargets \in TargetLists
  /\ index = <<>>
  /\ listOpts = NoListOptions
  /\ lpc = "none"
  /\ filtered = <<>>
  /\ listed = Pending

NextTargets == CallGetBuildTargetPairs

SpecTargets == InitTargets /\ [][NextTargets]_vars

\* the files of build b include the target string t
HasFile(b, t) == \E k \in 1..Len(b.files) : <<b.files[k]>> = t

\* the first target, in preference order, that the files of b include
FirstTarget(b, ts) ==
  ts[CHOOSE i \in 1..Len(ts) :
       HasFile(b, ts[i]) /\ \A j \in 1..(i - 1) : ~HasFile(b, ts[j])]

\* the builds whose files include a requested target, each with the first
\* target its files include
IncludedPairs(bs, ts) ==
  LET matching ==
        SelectSeq(bs, LAMBDA b : \E i \in 1..Len(ts) : HasFile(b, ts[i]))
  IN [k \in 1..Len(matching) |->
        [build |-> matching[k], target |-> FirstTarget(matching[k], ts)]]

PairsMade == mode = "getBuildTargetPairs" /\ pc = "done"

\* C20: the candidates are, in build order, exactly the builds whose files
\* include a requested target, each paired with the first target in
\* preference order that its files include.
C20_FirstIncludedTarget ==
  PairsMade => pairs = IncludedPairs(dateBuilds, argTargets)

\* a target that is not empty and has no comma in it
PlainTarget(t) == Len(t) = 1 /\ t # <<"">>

\* C20, for targets that are not empty and have no comma in them
C20_PlainTargets ==
  (PairsMade /\ \A i \in 1..Len(argTargets) : PlainTarget(argTargets[i])) =>
    pairs = IncludedPairs(dateBuilds, argTargets)

\* plain targets: the second of two preferred targets is taken for a build
\* without the first, the first for a build with both
C20_PlainWitness ==
  /\ PairsMade
  /\ argTargets = <<<<"b">>, <<"a">>>>
  /\ Len(pairs) = 2
  /\ pairs[1].target = <<"a">>
  /\ pairs[2].target = <<"b">>

\* ----------------------------------------------- claims on the bisection
\* bisectRange fetched the build list and the date filter left no builds
NoBuildsInRange ==
  /\ mode = "bisectRange"
  /\ pc = "done"
  /\ fetchCount = 1
  /\ outcome.err # "FetchError"
  /\ dateBuilds = <<>>

\* C21: when the date filter leaves no builds, bisectRange rejects with the
\* "no builds in range" error, whichever of good and bad are supplied, and
\* no candidate is downloaded or run.
C21_NoBuildsRejects ==
  NoBuildsInRange =>
    /\ outcome = Reject("NoBuildsInRange")
    /\ tested = <<>>
    /\ spc = "idle"

\* C21, for the calls that supply both good and bad
C21_BothBounds ==
  (good.kind = "date" /\ bad.kind = "date") => C21_NoBuildsRejects

\* both bounds supplied, builds fetched, none left by the filter
C21_BothBoundsWitness ==
  /\ NoBuildsInRange
  /\ good.kind = "date" /\ bad.kind = "date"
  /\ Len(allBuilds) = MaxFetched

\* no build of the list has a file that is one of the requested targets
NoTargetMatch(builds) ==
  \A i \in 1..Len(builds), t \in 1..Len(Targets) :
    ~HasFile(builds[i], Targets[t])

\* bisectBuilds has gone past its argument checks and its target filter, on
\* its own or inside bisectRange
PastTargetFilter ==
  /\ cmdArg = "valid"
  /\ opts.kind # "string"
  /\ \/ mode = "bisectBuilds" /\ pc \notin {"call", "builds_call"}
     \/ /\ mode = "bisectRange"
        /\ pc \notin {"call", "range_fetch", "builds_call"}
        /\ dateBuilds # <<>>

\* C22: when no build matches a requested target, bisectBuilds rejects with
\* the "no builds for requested targets" error, creates no scratch directory
\* and no agent, and runs no candidate.
C22_NoTargetRejects ==
  (PastTargetFilter /\ NoTargetMatch(dateBuilds)) =>
    /\ outcome = Reject("NoBuildsForTargets")
    /\ dir = "none"
    /\ ~agents.builds
    /\ spc = "idle"
    /\ tested = <<>>

\* a full list of builds, none for a requested target
C22_Witness ==
  /\ mode = "bisectBuilds"
  /\ PastTargetFilter
  /\ Len(dateBuilds) = MaxBuilds
  /\ NoTargetMatch(dateBuilds)
  /\ pc = "done"


\* the test at entry t of tested exited with code 125
SkipRun(t) == ~t.run.threw /\ t.run.code = Num(125)

\* C23: when a candidate's test exits with code 125 the bisection fails fast:
\* that test is the last one run, the search is over and rejected with the
\* skip error, the candidate is still inside the search window (it was
\* counted neither good nor bad), and bisectBuilds rejects with the skip
\* error instead of returning a pair.
C23_SkipFailsFast ==
  \A i \in 1..Len(tested) :
    SkipRun(tested[i]) =>
      /\ i = Len(tested)
      /\ spc = "done"
      /\ found = Rejected("SkipError")
      /\ mid = tested[i].index
      /\ low <= mid /\ mid <= high
      /\ outcome.state # "resolved"
      /\ pc = "done" => outcome = Reject("SkipError")

\* a second candidate exited with 125 and the bisection has settled
C23_Witness ==
  /\ Len(tested) = 2
  /\ SkipRun(tested[2])
  /\ pc = "done"


\* the test at entry t of tested was ended by a signal, or exited with a
\* code of 128 or more (no run of the model has a negative code)
AmbiguousRun(t) ==
  /\ ~t.run.threw
  /\ \/ t.run.signal # "none"
     \/ t.run.code.kind = "int" /\ t.run.code.v >= 128

\* C24: when a candidate's test is ended by a signal or exits with a code
\* that is negative or at least 128, the search is aborted: that test is the
\* last one run, the search is over and rejected, the candidate is still
\* inside the search window, and bisectBuilds does not return a pair.
C24_AmbiguousAborts ==
  \A i \in 1..Len(tested) :
    AmbiguousRun(tested[i]) =>
      /\ i = Len(tested)
      /\ spc = "done"
      /\ Failed(found)
      /\ low <= mid /\ mid <= high
      /\ outcome.state # "resolved"


\* what onresult is called with for the entries of ts, in order
NotesOf(ts) ==
  [i \in 1..Len(ts) |->
     [id |-> pairs[ts[i].index + 1].build.id,
      code |-> ts[i].run.code, signal |-> ts[i].run.signal]]

\* the entries of tested whose test ran to its end
RanTests == SelectSeq(tested, LAMBDA t : ~t.run.threw)

BuildsSettled == pc \in {"range_finally", "done"}

\* C26: once bisectBuilds has settled, a scratch directory it created has
\* had its removal attempted (it is removed, or its removal failed), and a
\* directory supplied by the caller is left alone.
C26_OwnDirRemoved ==
  BuildsSettled =>
    /\ dir # "created"
    /\ opts.exeDir = "caller" => dir = "none"

\* C26, for the runs that reach the search: there the finally block runs
C26_RemovedAfterSearch ==
  (BuildsSettled /\ spc # "idle") =>
    /\ dir # "created"
    /\ opts.exeDir = "caller" => dir = "none"

\* the search ran in a scratch directory of bisectBuilds, which is removed
C26_SearchWitness ==
  /\ BuildsSettled
  /\ spc = "done"
  /\ opts.exeDir = "own"
  /\ dir = "removed"


\* C27: when the removal of the scratch directory failed, the failure is
\* logged and the outcome of bisectBuilds is the one of the search: the
\* error of the search when it failed, otherwise the pair around the
\* boundary it found (at the two ends of the list, where there is no such
\* pair, the TypeError of the last lines of bisectBuilds, as it is without a
\* removal failure); in bisectRange that outcome is passed on unchanged.
C27_RemovalFailureLogged ==
  dir = "removeFailed" =>
    /\ logged = 1
    /\ BuildsSettled
    /\ Failed(found) => outcome = Reject(found.err)
    /\ ~Failed(found) =>
         LET firstBadInd == -found.val.v - 1
         IN IF firstBadInd \in 1..(Len(pairs) - 1)
              THEN /\ outcome.state = "resolved"
                   /\ outcome.pair = <<pairs[firstBadInd].build.id,
                                       pairs[firstBadInd + 1].build.id>>
              ELSE outcome = Reject("TypeError")

\* removal failed after a search that found a boundary
C27_Witness ==
  /\ dir = "removeFailed"
  /\ pc = "done"
  /\ outcome.state = "resolved"

\* removal failed after a search that failed
C27_FailedSearchWitness ==
  /\ dir = "removeFailed"
  /\ pc = "done"
  /\ Failed(found)
  /\ found.err = "SkipError"


\* C28: in a bisectRange run at most one agent is created, and none by the
\* bisectBuilds it calls; once created it is the agent of fetchOptions for
\* the rest of the run, so that the build list fetch and every download use
\* it; it is not destroyed while the run is going on and destroyed exactly
\* once when the run has settled; with an agent supplied by the caller no
\* agent is created and none is destroyed.
C28_OneAgentPerRun ==
  mode = "bisectRange" =>
    /\ agents.created <= 1
    /\ ~agents.builds
    /\ agents.created = 1 => (agents.range /\ opts.agent = "own")
    /\ (fetchCount > 0 /\ opts.proto \in {"https:", "http:"}) =>
         opts.agent \in {"own", "caller"}
    /\ pc # "done" => agents.destroyed = 0
    /\ pc = "done" => agents.destroyed = agents.created
    /\ opts.agent = "caller" => (agents.created = 0 /\ agents.destroyed = 0)

\* a run that fetched the list and tested two builds with its own agent, and
\* destroyed it at the end
C28_Witness ==
  /\ mode = "bisectRange"
  /\ pc = "done"
  /\ fetchCount = 1
  /\ Len(tested) = 2
  /\ agents.created = 1
  /\ agents.destroyed = 1

\* a run with the caller's agent that tested a build
C28_CallerWitness ==
  /\ mode = "bisectRange"
  /\ pc = "done"
  /\ opts.agent = "caller"
  /\ Len(tested) >= 1


\* exactly one build matched the targets, the caller listens to onrange, and
\* the one test of the search ran and exited with a plain good or bad code
SingleBuildTested ==
  /\ PastTargetFilter
  /\ Len(pairs) = 1
  /\ opts.onrange
  /\ BuildsSettled
  /\ tested # <<>>
  /\ ~tested[1].run.threw
  /\ tested[1].run.code \in {Num(0), Num(1)}

\* C30: with exactly one build matching the targets the search is over one
\* element, one test is run, and bisectBuilds then resolves with a result,
\* whether the test is good or bad.
C30_SingleBuildConcludes ==
  SingleBuildTested =>
    /\ haystackLen = 1
    /\ Len(tested) = 1
    /\ outcome.state = "resolved"

\* C30, without its conclusion: one element is searched and one test is run
C30_SingleBuildOneTest ==
  SingleBuildTested =>
    /\ haystackLen = 1
    /\ Len(tested) = 1
    /\ ~Failed(found)

\* one matching build out of a full list, tested good
C30_OneTestWitness ==
  /\ SingleBuildTested
  /\ Len(dateBuilds) = MaxBuilds
  /\ tested[1].run.code = Num(0)
  /\ pc = "done"


\* ----------------------------------------------------- lib/run-node-build.js
\* calls of ensureFile for one cache path, one after the other
MaxEnsures == 2

\* levels of path.dirname(filePath) that may be missing under the cache
\* directory
MaxDirs == 2

\* the file at filePath: none, one that was there before the first call, or
\* what was written to the file renamed to it
NoDisk == [file |-> "absent", part |-> "absent", missing |-> 0]

\* unlink(partPath) returns without removing anything
UnlinkLeaves(d) == d

\* unlink(partPath)
Unlink(d) == [d EXCEPT !.part = "absent"]

\* rename(partPath, filePath)
Rename(d) == [d EXCEPT !.file = d.part, !.part = "absent"]

\* pipeline(res.body, fs.createWriteStream(partPath)) settled after writing w
\* of the body: the file was never opened, or holds a part of the body, or
\* all of it
Written(d, w) == IF w = "unopened" THEN d ELSE [d EXCEPT !.part = w]

\* mkdir(fileDir, { recursive: true })
Mkdir(d) == [d EXCEPT !.missing = 0]

\* rmdir(removeDir) of an empty directory
Rmdir(d) == [d EXCEPT !.missing = @ + 1]

\* the rmdir loop is at fileDir itself, which holds the .part file
HoldsPart(d, created, left) == left = created /\ d.part # "absent"

\* stat(filePath) finds no file whatever is there
StatErrorsNeverFound(d) == {"EACCES", "ENOENT"}

\* stat(filePath) by what it may settle with
StatErrors(d) ==
  {"EACCES"} \cup (IF d.file = "absent" THEN {"ENOENT"} ELSE {"none"})

\* unlink(partPath) by what it may settle with
UnlinkErrors(d) ==
  {"EACCES"} \cup (IF d.part = "absent" THEN {"ENOENT"} ELSE {"none"})

\* rmdir(removeDir) by what it may settle with
RmdirErrors(d, created, left) ==
  {"EACCES"} \cup (IF HoldsPart(d, created, left) THEN {"ENOTEMPTY"}
                                                 ELSE {"none"})

\* downloadFile, and so ensureFile, rejects with e
DownloadThrows(e) ==
  /\ dresult' = Rejected(e)
  /\ dpc' = "idle"

\* ensureFile up to its await of stat
EnsureFile ==
  /\ dpc = "idle"
  /\ ensures < MaxEnsures
  /\ ensures' = ensures + 1
  /\ dresult' = Pending
  /\ errPipe' = "none"
  /\ createdDir' = 0
  /\ removeDir' = 0
  /\ dpc' = "stat"
  /\ UNCHANGED <<disk, fetches, dlogged>>
  /\ UNCHANGED nonDownloadVars

\* stat settled: the file is there, or stat failed, or downloadFile is called
\* and calls fetch
EnsureFileStat ==
  /\ dpc = "stat"
  /\ \E errStat \in StatErrors(disk) :
       IF errStat = "none"
         THEN /\ dresult' = Resolved(Undef)
              /\ dpc' = "idle"
              /\ UNCHANGED fetches
       ELSE IF errStat # "ENOENT"
         THEN /\ DownloadThrows("StatError")
              /\ UNCHANGED fetches
       ELSE /\ fetches' = fetches + 1
            /\ dpc' = "fetch"
            /\ UNCHANGED dresult
  /\ UNCHANGED <<disk, createdDir, removeDir, errPipe, dlogged, ensures>>
  /\ UNCHANGED nonDownloadVars

\* fetch settled: it rejected, or the response is not ok, or mkdir is awaited
DownloadFetched ==
  /\ dpc = "fetch"
  /\ \E r \in {"FetchError", "HttpStatus", "ok"} :
       IF r = "ok"
         THEN /\ dpc' = "mkdir"
              /\ UNCHANGED dresult
         ELSE DownloadThrows(r)
  /\ UNCHANGED <<disk, createdDir, removeDir, errPipe, fetches, dlogged,
                 ensures>>
  /\ UNCHANGED nonDownloadVars

\* mkdir settled: it failed, or the write stream is made and pipeline awaited
DownloadMkdir ==
  /\ dpc = "mkdir"
  /\ \/ /\ DownloadThrows("MkdirError")
        /\ UNCHANGED <<disk, createdDir>>
     \/ /\ createdDir' = disk.missing
        /\ disk' = Mkdir(disk)
        /\ dpc' = "pipe"
        /\ UNCHANGED dresult
  /\ UNCHANGED <<removeDir, errPipe, fetches, dlogged, ensures>>
  /\ UNCHANGED nonDownloadVars

\* pipeline settled: rename is awaited, or the catch block awaits unlink
DownloadPipeline ==
  /\ dpc = "pipe"
  /\ \E w \in {"unopened", "partial", "complete"} :
       /\ disk' = Written(disk, w)
       /\ IF w = "complete"
            THEN /\ dpc' = "rename"
                 /\ UNCHANGED errPipe
            ELSE /\ errPipe' = "PipeError"
                 /\ dpc' = "unlink"
  /\ UNCHANGED <<createdDir, removeDir, fetches, dlogged, dresult, ensures>>
  /\ UNCHANGED nonDownloadVars

\* rename settled: the download is done, or the catch block awaits unlink
DownloadRename ==
  /\ dpc = "rename"
  /\ \/ /\ disk' = Rename(disk)
        /\ dresult' = Resolved(Undef)
        /\ dpc' = "idle"
        /\ UNCHANGED errPipe
     \/ /\ errPipe' = "RenameError"
        /\ dpc' = "unlink"
        /\ UNCHANGED <<disk, dresult>>
  /\ UNCHANGED <<createdDir, removeDir, fetches, dlogged, ensures>>
  /\ UNCHANGED nonDownloadVars

\* unlink settled: its error is logged unless it is ENOENT; then the rmdir
\* loop if mkdir created a directory, else errPipe is thrown
DownloadUnlink ==
  /\ dpc = "unlink"
  /\ \E errUnlink \in UnlinkErrors(disk) :
       /\ disk' = IF errUnlink = "none" THEN Unlink(disk) ELSE disk
       /\ dlogged' = IF errUnlink \notin {"none", "ENOENT"}
                       THEN dlogged + 1 ELSE dlogged
  /\ IF createdDir > 0
       THEN /\ removeDir' = createdDir
            /\ dpc' = "rmdir"
            /\ UNCHANGED dresult
       ELSE /\ DownloadThrows(errPipe)
            /\ UNCHANGED removeDir
  /\ UNCHANGED <<createdDir, errPipe, fetches, ensures>>
  /\ UNCHANGED nonDownloadVars

\* one rmdir of the loop settled: the next one is awaited, or the loop is
\* over, or it failed, which is logged unless it is ENOTEMPTY; after the loop
\* errPipe is thrown
DownloadRmdir ==
  /\ dpc = "rmdir"
  /\ \E errRmdir \in RmdirErrors(disk, createdDir, removeDir) :
       IF errRmdir = "none"
         THEN /\ disk' = Rmdir(disk)
              /\ removeDir' = removeDir - 1
              /\ IF removeDir' > 0
                   THEN UNCHANGED <<dpc, dresult>>
                   ELSE DownloadThrows(errPipe)
              /\ UNCHANGED dlogged
         ELSE /\ dlogged' = IF errRmdir # "ENOTEMPTY"
                              THEN dlogged + 1 ELSE dlogged
              /\ DownloadThrows(errPipe)
              /\ UNCHANGED <<disk, removeDir>>
  /\ UNCHANGED <<createdDir, errPipe, fetches, ensures>>
  /\ UNCHANGED nonDownloadVars

\* the cache path before the first call: the file is there, or it is not and
\* some levels of its directory may be missing too
InitDownload ==
  /\ mode = "ensureFile"
  /\ SearchIdle
  /\ CmdIdle
  /\ BisectIdle
  /\ runs = <<>>
  /\ argTargets = <<>>
  /\ index = <<>>
  /\ listOpts = NoListOptions
  /\ lpc = "none"
  /\ filtered = <<>>
  /\ listed = Pending
  /\ dpc = "idle"
  /\ disk \in {[NoDisk EXCEPT !.file = "cached"]}
               \cup {[NoDisk EXCEPT !.missing = m] : m \in 0..MaxDirs}
  /\ createdDir = 0
  /\ removeDir = 0
  /\ errPipe = "none"
  /\ fetches = 0
  /\ dlogged = 0
  /\ dresult = Pending
  /\ ensures = 0

NextDownload ==
  \/ EnsureFile
  \/ EnsureFileStat
  \/ DownloadFetched
  \/ DownloadMkdir
  \/ DownloadPipeline
  \/ DownloadRename
  \/ DownloadUnlink
  \/ DownloadRmdir

SpecDownload == InitDownload /\ [][NextDownload]_vars


\* ------------------------------------------------- claims on the download
\* the last call of ensureFile called downloadFile, which rejected
FailedDownload ==
  /\ dpc = "idle"
  /\ Failed(dresult)
  /\ dresult.err # "StatError"

\* the file at filePath is absent, or was there before the first call, or is
\* a completely written .part file renamed to it; while the .part file is
\* written, renamed or removed there is no file at filePath; and after a
\* failed download there is no file at filePath
CacheEntryComplete ==
  /\ disk.file \in {"absent", "cached", "complete"}
  /\ dpc \in {"pipe", "rename", "unlink", "rmdir"} => disk.file = "absent"
  /\ FailedDownload => disk.file = "absent"

\* a failure of pipeline or rename is the error downloadFile rejects with
PipeErrorRethrown ==
  (FailedDownload /\ errPipe # "none") => dresult = Rejected(errPipe)

\* C29, as stated: a cache entry exists only as a completely downloaded
\* file, and after a failed download there is no file at the final path, no
\* .part file, and the error of the download is the rejection.
C29_FailedDownloadRemovesPart ==
  /\ CacheEntryComplete
  /\ PipeErrorRethrown
  /\ FailedDownload => disk.part = "absent"

\* C29, amended: a cache entry exists only as a completely downloaded file,
\* and after a failed download there is no file at the final path, the error
\* of the download is the rejection, and the .part file is gone unless its
\* removal failed and was logged.
C29_FailedDownloadCleansUp ==
  /\ CacheEntryComplete
  /\ PipeErrorRethrown
  /\ (FailedDownload /\ disk.part # "absent") => dlogged >= 1

\* a download failed while writing, the .part file and every directory made
\* for it were removed
C29_Witness ==
  /\ FailedDownload
  /\ errPipe = "PipeError"
  /\ createdDir = MaxDirs
  /\ disk = [NoDisk EXCEPT !.missing = MaxDirs]
  /\ dlogged = 0

\* a download completed and its file is in the cache
C29_CompleteWitness ==
  /\ dpc = "idle"
  /\ dresult = Resolved(Undef)
  /\ fetches = 1
  /\ disk.file = "complete"


\* C34: a file that is at the cache path is never downloaded again: fetch is
\* called only by the call of ensureFile whose stat found no file at the
\* cache path, once, and while that download goes on there is still no file
\* there; a file that was in the cache from the start is never fetched; and a
\* stat that fails otherwise rejects the call there and then, without a fetch.
C34_CachedNeverFetched ==
  /\ [](/\ disk.file = "cached" => fetches = 0
        /\ dpc \in {"fetch", "mkdir", "pipe", "rename", "unlink", "rmdir"}
             => disk.file = "absent"
        /\ (Failed(dresult) /\ dresult.err = "StatError") => dpc = "idle")
  /\ [][/\ fetches' # fetches =>
             /\ dpc = "stat" /\ disk.file = "absent"
             /\ fetches' = fetches + 1
        /\ (dpc = "stat" /\ disk.file # "absent") =>
             (dpc' = "idle" /\ Settled(dresult'))
        /\ (Failed(dresult') /\ dresult'.err = "StatError") =>
             fetches' = fetches]_vars

\* the first call downloaded the file, the second found it in the cache
C34_Witness ==
  /\ ensures = 2
  /\ fetches = 1
  /\ dpc = "idle"
  /\ disk.file = "complete"
  /\ dresult = Resolved(Undef)

\* a stat that failed with another error than ENOENT, the file being there
C34_StatErrorWitness ==
  /\ dpc = "idle"
  /\ dresult = Rejected("StatError")
  /\ disk.file = "complete"
  /\ fetches = 1


\* the search of a bisectRange run was started
SearchStarted == spc # "idle" \/ tested # <<>>

RanGood(j) ==
  \E i \in 1..Len(tested) :
    /\ tested[i].index = j
    /\ ~tested[i].run.threw
    /\ tested[i].run.code = Num(0)

\* the candidate at 0-based index j was run in this search and its run was
\* classified bad
RanBad(j) ==
  \E i \in 1..Len(tested) :
    /\ tested[i].index = j
    /\ ~tested[i].run.threw
    /\ tested[i].run.code \notin {Num(0), Num(125)}

\* C37: whatever the sequence of test outcomes, a pair that bisectBuilds
\* resolves with is made of two adjacent candidates, of which the first was
\* run in this search and tested good and the second was run in this search
\* and tested bad.
C37_PairTestedAdjacent ==
  outcome.state = "resolved" =>
    \E k \in 1..(Len(pairs) - 1) :
      /\ outcome.pair = <<pairs[k].build.id, pairs[k + 1].build.id>>
      /\ RanGood(k - 1)
      /\ RanBad(k)

\* a pair from outcomes that are not monotonic: a candidate tested bad, then
\* an earlier one tested good
C37_Witness ==
  /\ outcome.state = "resolved"
  /\ Len(pairs) = MaxBuilds
  /\ Len(tested) = 2
  /\ tested[1].index = 1 /\ tested[1].run.code # Num(0)
  /\ tested[2].index = 0 /\ tested[2].run.code = Num(0)


\* ------------------------------------------- termination of the search
\* the longest sequence searched
MaxSearchLen == 4

\* the comparator settles with whatever it likes, each time it is invoked
SearchCompareAny ==
  /\ mode = "search"
  /\ UNCHANGED bisectVars
  /\ \E v \in CmpVals :
       CompareSettled(IF v.kind = "reject" THEN Throw("Error")
                                          ELSE Fulfil(v))

\* a call of binarySearchAsync with a comparator that is not known ahead
InitTerminate ==
  /\ mode = "search"
  /\ haystackLen \in 0..MaxSearchLen
  /\ cmp = <<>>
  /\ argLow \in ArgVals
  /\ argHigh \in ArgVals
  /\ hasProgress \in BOOLEAN
  /\ spc = "call"
  /\ low = 0
  /\ high = 0
  /\ mid = 0
  /\ inFlight = 0
  /\ events = <<>>
  /\ found = Pending
  /\ BisectIdle
  /\ OtherIdle

NextTerminate ==
  \/ BinarySearchAsync
  \/ BinarySearchImpl
  \/ SearchCompareAny

\* the steps of binarySearchAsync are taken, and the comparator settles
SpecTerminate ==
  InitTerminate /\ [][NextTerminate]_vars /\ WF_vars(NextTerminate)

\* the number of elements of the range the search starts with: low to high,
\* high clamped to the last index
RangeSize ==
  Min(HighOf(argHigh, haystackLen), haystackLen - 1) - LowOf(argLow) + 1

\* the comparator was invoked only on indices of the initial range, on none
\* of them twice, and at most floor(log2 N) + 1 times for N elements
ProbesBounded ==
  /\ \A i \in CompareAt :
       /\ events[i].a >= LowOf(argLow)
       /\ events[i].a <= HighOf(argHigh, haystackLen)
       /\ events[i].a < haystackLen
  /\ \A i, j \in CompareAt : i # j => events[i].a # events[j].a
  /\ CompareAt # {} =>
       Cardinality(CompareAt) <= FloorLog2(RangeSize) + 1

\* C38: every search ends, given a comparator that always settles, and all
\* along the comparator was invoked only on indices of the initial range
\* clamped to the sequence, on no index twice, and at most floor(log2 N) + 1
\* times over a range of N elements.
C38_Terminates ==
  /\ <>(spc = "done")
  /\ []ProbesBounded

\* a search over a part of a full sequence that made as many probes as the
\* bound allows and ended
C38_Witness ==
  /\ spc = "done"
  /\ haystackLen = MaxSearchLen
  /\ argLow = Num(1)
  /\ RangeSize = MaxSearchLen - 1
  /\ Cardinality(CompareAt) = FloorLog2(RangeSize) + 1


\* ----------------------------------------------- claims on reorderBuilds
\* how many times x is in seq
Occurrences(seq, x) == Cardinality({i \in 1..Len(seq) : seq[i] = x})

\* the 1-based place of commit c in a table entry
PlaceIn(order, c) == CHOOSE k \in 1..Len(order) : order[k] = c

\* C39: a list reorderBuilds returns holds each build of its input as many
\* times as the input does, is in non-decreasing order of date, so that
\* builds of different dates are in the reverse of their order in the
\* newest-first input, and has any two builds of one date in the reverse of
\* the order in which the table entry of that date lists their commits.
C39_PermutationInTableOrder ==
  (ReorderRan /\ listed.state = "resolved") =>
    LET out == listed.val
    IN /\ Len(out) = Len(filtered)
       /\ \A i \in 1..Len(filtered) :
            Occurrences(out, filtered[i]) = Occurrences(filtered, filtered[i])
       /\ \A i \in 1..Len(out), j \in 1..Len(out) :
            i < j =>
              /\ out[i].date <= out[j].date
              /\ out[i].date = out[j].date =>
                   /\ out[i].date \in DOMAIN CommitOrderByDate
                   /\ PlaceIn(CommitOrderByDate[out[i].date], CommitOf(out[i]))
                        > PlaceIn(CommitOrderByDate[out[j].date],
                                  CommitOf(out[j]))
       /\ \A i \in 1..Len(filtered), j \in 1..Len(filtered) :
            (i < j /\ filtered[i].date # filtered[j].date) =>
              \E k \in 1..Len(out), l \in 1..Len(out) :
                l < k /\ out[k] = filtered[i] /\ out[l] = filtered[j]

\* a cluster that the index lists against the table's order, and a build of
\* another date
C39_Witness ==
  /\ ReorderRan
  /\ listed.state = "resolved"
  /\ Len(filtered) = 3
  /\ \E s \in Positions :
       /\ Cluster(s, s + 1)
       /\ CommitOf(filtered[s])
            = CommitOrderByDate[filtered[s].date][2]

\* ------------------------------------------------------------------ cli.js
\* noderegressionMain: the options are parsed one occurrence at a time, the
\* bisect logs are opened, bisectRange is invoked with the listeners of the
\* command, and the exit code is returned once the log files have finished.
MaxArgs == 2
MaxResults == 2

DayMs == 24 * 60 * 60 * 1000
MinuteMs == 60 * 1000
\* date.getTimezoneOffset() where the command runs: minutes behind UTC
TimezoneOffset == 300

\* An argument of a date option, as the time value new Date(str) gives it:
\* a day written the ISO way is midnight UTC, a day written the local way is
\* midnight local time, a string with a time of day, a string that does not
\* parse.
UtcDay(d) == Num(d * DayMs)
LocalDay(d) == Num(d * DayMs + TimezoneOffset * MinuteMs)
TimeOfDay(d) == Num(d * DayMs + 123 * MinuteMs)
DateStrings == {UtcDay(1), UtcDay(2), LocalDay(2), TimeOfDay(1), NaN}

\* the arguments of --log: stdout, a file
LogArgs == {"-", "file"}

\* code of an onresult call: exit code 0, exit code 1, null for a test
\* killed by a signal
ResultCodes == {Num(0), Num(1), Null}

\* parseDate
ParseDate(str) ==
  IF str.kind = "nan" THEN Throw("InvalidArgumentError")
  ELSE LET dateMs == str.v
           dayMs == dateMs % DayMs
       IN IF dayMs # 0
          THEN IF dayMs # TimezoneOffset * MinuteMs
               THEN Throw("InvalidArgumentError")
               ELSE Fulfil(Num(dateMs - dayMs))
          ELSE Fulfil(Num(dateMs))

ParseGoodKeepsLast(g, date) == date
\* parseGood, after parseDate returned date: the new value of good
ParseGood(g, date) == IF g = Undef \/ g.v < date.v THEN date ELSE g

\* parseBad, after parseDate returned date: the new value of bad
ParseBad(b, date) == IF b = Undef \/ b.v > date.v THEN date ELSE b

Verbosity == verbose - quiet

\* an option as it appears on the command line
Option(name, arg) == [opt |-> name, arg |-> arg]

\* the stream pushed to bisectLogs for argOpts.log[i]
StreamOf(names, i) == IF names[i] = "-" THEN 0 ELSE i

LogsOpenNone(names) == {}
\* the streams whose 'open' is awaited: one promise in logsOpen each
LogsOpen(names) == {i \in 1..Len(names) : names[i] # "-"}

\* listeners of 'error' that are onBisectLogError, on an open stream
ErrorListeners(names, s) ==
  IF s = 0 THEN Cardinality({i \in 1..Len(names) : names[i] = "-"}) ELSE 1

\* const i = bisectLogs.indexOf(this); if (i !== -1) bisectLogs.splice(i, 1)
RECURSIVE RemoveLog(_, _)
RemoveLog(logs, s) ==
  IF logs = <<>> THEN <<>>
  ELSE IF Head(logs) = s THEN Tail(logs)
  ELSE <<Head(logs)>> \o RemoveLog(Tail(logs), s)

\* onBisectLogError called by each of n listeners
RECURSIVE RemoveLogs(_, _, _)
RemoveLogs(logs, s, n) ==
  IF n = 0 THEN logs ELSE RemoveLogs(RemoveLog(logs, s), s, n - 1)

LogsAfterErrorKept(logs, names, s) == logs
\* bisectLogs after the 'error' of stream s
LogsAfterError(logs, names, s) ==
  RemoveLogs(logs, s, ErrorListeners(names, s))

RECURSIVE Repeated(_, _)
Repeated(x, n) == IF n = 0 THEN <<>> ELSE <<x>> \o Repeated(x, n - 1)

\* const goodbad = code === 0 ? 'good' : 'bad'
GoodBad(code) == IF code = Num(0) THEN "good" ELSE "bad"

\* the two lines onresult writes for the n-th build notified
LogEntry(n, code) == [build |-> n, goodbad |-> GoodBad(code)]

\* for (const bisectLog of bisectLogs) bisectLog.write(entry)
RECURSIVE WriteEach(_, _, _)
WriteEach(w, logs, entry) ==
  IF logs = <<>> THEN w
  ELSE WriteEach([w EXCEPT ![Head(logs)] = Append(@, entry)], Tail(logs),
                 entry)

\* the finally block: end() on every bisect log that is not options.stdout
EndLogs(st, logs) ==
  [s \in DOMAIN st |->
     IF s # 0 /\ (\E k \in 1..Len(logs) : logs[k] = s)
          /\ st[s] \in {"open", "opening"}
     THEN "ending" ELSE st[s]]

CaughtExitCodeKept(code) == code
\* exitCode = 1 in the catch block
CaughtExitCode(code) == 1

\* await bisectRange2(good, bad, command.args, cmdOpts), up to the await
Invoked == [state |-> "called", good |-> mainGood, bad |-> mainBad]

\* commander reports the InvalidArgumentError of an option parser on stderr
\* and parse throws an error with exitCode 1, which the command returns
CmdParseError ==
  /\ stderr' = Append(stderr, "InvalidArgumentError")
  /\ exited' = Resolved(Num(1))
  /\ cpc' = "done"
  /\ UNCHANGED <<mainGood, mainBad>>

\* -g, --good <date> and --old <date>
CmdGoodOption ==
  /\ cpc = "parse"
  /\ Len(argv) < MaxArgs
  /\ \E str \in DateStrings :
       LET date == ParseDate(str)
       IN /\ argv' = Append(argv, Option("good", str))
          /\ IF date.threw THEN CmdParseError
             ELSE /\ mainGood' = ParseGood(mainGood, date.val)
                  /\ UNCHANGED <<mainBad, stderr, exited, cpc>>
  /\ UNCHANGED <<logNames, quiet, verbose, bisectLogs, streamState, written,
                 exitCode, called, results>>
  /\ UNCHANGED nonCmdVars

\* -b, --bad <date> and --new <date>
CmdBadOption ==
  /\ cpc = "parse"
  /\ Len(argv) < MaxArgs
  /\ \E str \in DateStrings :
       LET date == ParseDate(str)
       IN /\ argv' = Append(argv, Option("bad", str))
          /\ IF date.threw THEN CmdParseError
             ELSE /\ mainBad' = ParseBad(mainBad, date.val)
                  /\ UNCHANGED <<mainGood, stderr, exited, cpc>>
  /\ UNCHANGED <<logNames, quiet, verbose, bisectLogs, streamState, written,
                 exitCode, called, results>>
  /\ UNCHANGED nonCmdVars

\* -l, --log <logfile>: arrayOption
CmdLogOption ==
  /\ cpc = "parse"
  /\ Len(argv) < MaxArgs
  /\ \E name \in LogArgs :
       /\ argv' = Append(argv, Option("log", name))
       /\ logNames' = Append(logNames, name)
  /\ UNCHANGED <<cpc, mainGood, mainBad, quiet, verbose,
                 bisectLogs, streamState, written, stderr, exitCode, called,
                 results, exited>>
  /\ UNCHANGED nonCmdVars

\* -q, --quiet: countOption
CmdQuietOption ==
  /\ cpc = "parse"
  /\ Len(argv) < MaxArgs
  /\ argv' = Append(argv, Option("quiet", Undef))
  /\ quiet' = quiet + 1
  /\ UNCHANGED <<cpc, mainGood, mainBad, logNames, verbose,
                 bisectLogs, streamState, written, stderr, exitCode, called,
                 results, exited>>
  /\ UNCHANGED nonCmdVars

\* -v, --verbose: countOption
CmdVerboseOption ==
  /\ cpc = "parse"
  /\ Len(argv) < MaxArgs
  /\ argv' = Append(argv, Option("verbose", Undef))
  /\ verbose' = verbose + 1
  /\ UNCHANGED <<cpc, mainGood, mainBad, logNames, quiet,
                 bisectLogs, streamState, written, stderr, exitCode, called,
                 results, exited>>
  /\ UNCHANGED nonCmdVars

\* -V, --version: the listener throws errVersion, the catch around parse
\* writes the version to stdout and returns 0
CmdVersionOption ==
  /\ cpc = "parse"
  /\ Len(argv) < MaxArgs
  /\ argv' = Append(argv, Option("version", Undef))
  /\ written' = [written EXCEPT ![0] = Append(@, "version")]
  /\ exited' = Resolved(Num(0))
  /\ cpc' = "done"
  /\ UNCHANGED <<mainGood, mainBad, logNames, quiet,
                 verbose, bisectLogs, streamState, stderr, exitCode, called,
                 results>>
  /\ UNCHANGED nonCmdVars

\* command.parse returned: the bisect logs are set up, and the try block runs
\* to its first await, of the log files when there are any, of bisectRange
\* when there are none
CmdParsed ==
  /\ cpc = "parse"
  /\ bisectLogs' = [i \in 1..Len(logNames) |-> StreamOf(logNames, i)]
  /\ streamState' = [s \in 0..Len(logNames) |->
                       IF s = 0 THEN "open"
                       ELSE IF logNames[s] = "-" THEN "none" ELSE "opening"]
  /\ written' = [s \in 0..Len(logNames) |-> <<>>]
  /\ IF LogsOpen(logNames) # {}
     THEN /\ cpc' = "opening"
          /\ UNCHANGED called
     ELSE /\ cpc' = "bisect"
          /\ called' = Invoked
  /\ UNCHANGED <<argv, mainGood, mainBad, logNames, quiet,
                 verbose, stderr, exitCode, results, exited>>
  /\ UNCHANGED nonCmdVars

\* 'open' of a log file: onBisectLogError listens from now on; with the last
\* one Promise.all(logsOpen) resolves and bisectRange is invoked
LogOpened ==
  /\ cpc = "opening"
  /\ \E s \in LogsOpen(logNames) :
       /\ streamState[s] = "opening"
       /\ streamState' = [streamState EXCEPT ![s] = "open"]
       /\ IF \A t \in LogsOpen(logNames) \ {s} : streamState[t] = "open"
          THEN /\ cpc' = "bisect"
               /\ called' = Invoked
          ELSE UNCHANGED <<cpc, called>>
  /\ UNCHANGED <<argv, mainGood, mainBad, logNames, quiet,
                 verbose, bisectLogs, written, stderr, exitCode, results,
                 exited>>
  /\ UNCHANGED nonCmdVars

\* 'error' of a log file before its 'open': Promise.all(logsOpen) rejects,
\* the catch block reports it, the finally block ends the log files
LogOpenFailed ==
  /\ cpc = "opening"
  /\ \E s \in LogsOpen(logNames) :
       /\ streamState[s] = "opening"
       /\ streamState' =
            EndLogs([streamState EXCEPT ![s] = "failed"], bisectLogs)
  /\ exitCode' = CaughtExitCode(exitCode)
  /\ stderr' = Append(stderr, "Error opening log file")
  /\ cpc' = "finishing"
  /\ UNCHANGED <<argv, mainGood, mainBad, logNames, quiet,
                 verbose, bisectLogs, written, called, results, exited>>
  /\ UNCHANGED nonCmdVars

\* listeners.onresult(build, code, signal), called by bisectRange
OnResult ==
  /\ cpc = "bisect"
  /\ Len(results) < MaxResults
  /\ \E code \in ResultCodes :
       /\ results' = Append(results, code)
       /\ written' =
            WriteEach(written, bisectLogs, LogEntry(Len(results) + 1, code))
  /\ stderr' = IF Verbosity >= 1 THEN Append(stderr, "Build") ELSE stderr
  /\ UNCHANGED <<cpc, argv, mainGood, mainBad, logNames, quiet,
                 verbose, bisectLogs, streamState, exitCode, called, exited>>
  /\ UNCHANGED nonCmdVars

\* 'error' of a stream that was written to: onBisectLogError, once for each
\* time it listens on the stream
LogError ==
  /\ \E s \in DOMAIN streamState :
       /\ streamState[s] \in {"open", "ending"}
       /\ written[s] # <<>>
       /\ ErrorListeners(logNames, s) > 0
       /\ streamState' = [streamState EXCEPT ![s] = "errored"]
       /\ exitCode' = 1
       /\ stderr' = stderr \o Repeated("Error writing to bisect log",
                                       ErrorListeners(logNames, s))
       /\ bisectLogs' = LogsAfterError(bisectLogs, logNames, s)
  /\ UNCHANGED <<cpc, argv, mainGood, mainBad, logNames, quiet,
                 verbose, written, called, results, exited>>
  /\ UNCHANGED nonCmdVars

\* bisectRange resolved: the two builds are reported, the finally block ends
\* the log files
BisectResolved ==
  /\ cpc = "bisect"
  /\ called' = [called EXCEPT !.state = "resolved"]
  /\ stderr' = IF Verbosity >= 0
               THEN stderr \o <<"Last good build", "First bad build">>
               ELSE stderr
  /\ streamState' = EndLogs(streamState, bisectLogs)
  /\ cpc' = "finishing"
  /\ UNCHANGED <<argv, mainGood, mainBad, logNames, quiet,
                 verbose, bisectLogs, written, exitCode, results, exited>>
  /\ UNCHANGED nonCmdVars

\* bisectRange rejected: the catch block reports the error, the finally
\* block ends the log files
BisectRejected ==
  /\ cpc = "bisect"
  /\ called' = [called EXCEPT !.state = "rejected"]
  /\ exitCode' = CaughtExitCode(exitCode)
  /\ stderr' = Append(stderr, IF Verbosity >= 2 THEN "err2.stack" ELSE "err2")
  /\ streamState' = EndLogs(streamState, bisectLogs)
  /\ cpc' = "finishing"
  /\ UNCHANGED <<argv, mainGood, mainBad, logNames, quiet,
                 verbose, bisectLogs, written, results, exited>>
  /\ UNCHANGED nonCmdVars

\* a log file that was ended has finished
LogFinished ==
  /\ \E s \in DOMAIN streamState :
       /\ streamState[s] = "ending"
       /\ streamState' = [streamState EXCEPT ![s] = "finished"]
  /\ UNCHANGED <<cpc, argv, mainGood, mainBad, logNames, quiet,
                 verbose, bisectLogs, written, stderr, exitCode, called,
                 results, exited>>
  /\ UNCHANGED nonCmdVars

\* await Promise.all(logsFinished) resumed: return exitCode
CmdReturn ==
  /\ cpc = "finishing"
  /\ \A s \in LogsOpen(logNames) :
       streamState[s] \in {"finished", "failed", "errored"}
  /\ exited' = Resolved(Num(exitCode))
  /\ cpc' = "done"
  /\ UNCHANGED <<argv, mainGood, mainBad, logNames, quiet,
                 verbose, bisectLogs, streamState, written, stderr, exitCode,
                 called, results>>
  /\ UNCHANGED nonCmdVars

InitCmd ==
  /\ mode = "main"
  /\ SearchIdle
  /\ BisectIdle
  /\ DownloadIdle
  /\ runs = <<>>
  /\ argTargets = <<>>
  /\ index = <<>>
  /\ listOpts = NoListOptions
  /\ lpc = "none"
  /\ filtered = <<>>
  /\ listed = Pending
  /\ cpc = "parse"
  /\ argv = <<>>
  /\ mainGood = Undef
  /\ mainBad = Undef
  /\ logNames = <<>>
  /\ quiet = 0
  /\ verbose = 0
  /\ bisectLogs = <<>>
  /\ streamState = [s \in {0} |-> "open"]
  /\ written = [s \in {0} |-> <<>>]
  /\ stderr = <<>>
  /\ exitCode = 0
  /\ called = NotCalled
  /\ results = <<>>
  /\ exited = Pending

NextCmd ==
  \/ CmdGoodOption
  \/ CmdBadOption
  \/ CmdLogOption
  \/ CmdQuietOption
  \/ CmdVerboseOption
  \/ CmdVersionOption
  \/ CmdParsed
  \/ LogOpened
  \/ LogOpenFailed
  \/ OnResult
  \/ LogError
  \/ BisectResolved
  \/ BisectRejected
  \/ LogFinished
  \/ CmdReturn

SpecCmd == InitCmd /\ [][NextCmd]_vars

\* ---------------------------------------------------- C32: several dates
\* the dates the options named opt were given, as parseDate returned them
DatesGiven(opt) ==
  {ParseDate(argv[i].arg).val :
     i \in {j \in 1..Len(argv) : argv[j].opt = opt}}

\* d is the latest, the earliest of a set of dates; undefined of no dates
IsLatest(d, dates) ==
  IF dates = {} THEN d = Undef
  ELSE d \in dates /\ \A e \in dates : e.v <= d.v
IsEarliest(d, dates) ==
  IF dates = {} THEN d = Undef
  ELSE d \in dates /\ \A e \in dates : e.v >= d.v

\* C32: bisectRange is invoked with the latest of the dates given with
\* --good and --old and the earliest of the dates given with --bad and
\* --new, in whatever order the options appeared on the command line.
C32_LatestGoodEarliestBad ==
  called.state # "none" =>
    /\ IsLatest(called.good, DatesGiven("good"))
    /\ IsEarliest(called.bad, DatesGiven("bad"))

\* bisectRange was invoked after two good dates, the later one given first
C32_Witness ==
  /\ called.state = "called"
  /\ Len(argv) = 2
  /\ argv[1].opt = "good"
  /\ argv[2].opt = "good"
  /\ ParseDate(argv[1].arg).val.v > ParseDate(argv[2].arg).val.v
  /\ called.good = ParseDate(argv[1].arg).val

\* ------------------------------------------- C36: logs open before bisect
\* the log files named with --log
LogFiles == {i \in 1..Len(logNames) : logNames[i] = "file"}

\* the stream has emitted 'open'
HasOpened(s) ==
  /\ s \in DOMAIN streamState
  /\ streamState[s] \in {"open", "errored", "ending", "finished"}

\* C36: bisectRange is invoked only when every log file named with --log has
\* emitted 'open'; when a log file failed to open, bisectRange is not
\* invoked, the exitCode is 1 at once and the command returns 1.
C36_OpenBeforeBisect ==
  /\ called.state # "none" => \A s \in LogFiles : HasOpened(s)
  /\ (\E s \in LogFiles : s \in DOMAIN streamState
                            /\ streamState[s] = "failed")
       => /\ called.state = "none"
          /\ exitCode = 1
          /\ cpc = "done" => exited = Resolved(Num(1))

\* bisectRange was invoked with two log files, both open
C36_Witness ==
  /\ called.state = "called"
  /\ logNames = <<"file", "file">>
  /\ streamState[1] = "open"
  /\ streamState[2] = "open"

\* one log file opened, the other failed to, and the command returned 1
C36_FailedWitness ==
  /\ cpc = "done"
  /\ logNames = <<"file", "file">>
  /\ streamState[1] = "finished"
  /\ streamState[2] = "failed"
  /\ called.state = "none"
  /\ exited = Resolved(Num(1))

\* ------------------------------------------------ C33: bisect log entries
\* the streams in bisectLogs: the bisect logs still written to
ActiveLogs == {bisectLogs[k] : k \in 1..Len(bisectLogs)}

\* one entry for each onresult call so far, in the order of the calls, good
\* for exit code 0 and bad for every other code and for a signal
EntriesOfResults ==
  [n \in 1..Len(results) |->
     [build |-> n,
      goodbad |-> IF results[n] = Num(0) THEN "good" ELSE "bad"]]

\* C33: whatever the onresult calls so far, every active bisect log, stdout
\* or a file, holds exactly one entry for each call, in the order of the
\* calls, marked good for exit code 0 and bad otherwise, and nothing else.
C33_OneEntryPerResult ==
  \A s \in ActiveLogs : written[s] = EntriesOfResults

\* the entries, each as many times as the stream is in bisectLogs
RECURSIVE EntriesTimes(_, _)
EntriesTimes(entries, n) ==
  IF entries = <<>> THEN <<>>
  ELSE Repeated(Head(entries), n) \o EntriesTimes(Tail(entries), n)

TimesActive(s) == Cardinality({k \in 1..Len(bisectLogs) : bisectLogs[k] = s})

\* C33, for each --log option: every active bisect log holds, for each
\* onresult call in order, one entry for each --log option that names it,
\* and nothing else.
C33_OneEntryPerOptionPerResult ==
  \A s \in ActiveLogs : written[s] = EntriesTimes(EntriesOfResults, TimesActive(s))

\* stdout and a file are bisect logs, and a good, then a signalled result
\* were notified
C33_Witness ==
  /\ logNames = <<"-", "file">>
  /\ ActiveLogs = {0, 2}
  /\ results = <<Num(0), Null>>
  /\ written[0] = written[2]
  /\ Len(written[0]) = 2
  /\ written[0][2].goodbad = "bad"

\* ---------------------------------------------- C40: a log fails to write
\* the streams that are bisect logs: stdout when named, every log file
IsLog(s) == IF s = 0 THEN \E i \in 1..Len(logNames) : logNames[i] = "-"
            ELSE s \in LogFiles

\* the streams that emitted 'error' after they were written to
ErroredLogs ==
  {s \in DOMAIN streamState : IsLog(s) /\ streamState[s] = "errored"}

\* C40: once a bisect log that opened has had a write error, exitCode is 1
\* and stays 1, and it is what the command returns after bisectRange
\* settled, resolved or not; the log that failed is written to no more; every
\* other log that has not failed receives the entry of every later result.
C40_WriteErrorIsFatal ==
  /\ [](ErroredLogs # {} => exitCode = 1)
  /\ [][/\ (cpc = "finishing" /\ cpc' = "done")
             => exited' = Resolved(Num(exitCode))
        /\ \A s \in ErroredLogs : s \in ErroredLogs' /\ written'[s] = written[s]
        /\ results' # results =>
             \A s \in DOMAIN streamState :
               IsLog(s) /\ s \notin ErroredLogs =>
                 /\ Len(written'[s]) > Len(written[s])
                 /\ written'[s][Len(written'[s])]
                      = EntriesOfResults'[Len(results')]]_vars

\* of two logs the first failed after the first result, the second received
\* the second result as well, bisectRange resolved and the command returned 1
C40_Witness ==
  /\ cpc = "done"
  /\ logNames = <<"file", "file">>
  /\ called.state = "resolved"
  /\ streamState[1] = "errored"
  /\ streamState[2] = "finished"
  /\ Len(results) = 2
  /\ Len(written[1]) = 1
  /\ written[2] = EntriesOfResults
  /\ exited = Resolved(Num(1))

\* ------------------------------------------------- C31: the exit code
\* the catch block wrote the error of bisectRange to stderr
ErrorReported ==
  \E k \in 1..Len(stderr) : stderr[k] \in {"err2", "err2.stack"}

\* what the command does with the way bisectRange settled, but for stdout
ExitCodeOfBisect ==
  /\ exited.state \in {"pending", "resolved"}
  /\ called.state = "resolved" /\ ErroredLogs = {} /\ cpc = "done"
       => exited = Resolved(Num(0))
  /\ called.state = "rejected"
       => /\ exitCode = 1
          /\ ErrorReported
          /\ cpc = "done" => exited = Resolved(Num(1))

\* C31: the command resolves with 0 when bisectRange resolved and no log
\* had an error, and with 1 when bisectRange rejected; in that case the
\* error is on stderr and nothing was written to stdout; the command never
\* rejects.
C31_ExitCode ==
  /\ ExitCodeOfBisect
  /\ called.state = "rejected" => written[0] = <<>>

\* C31, with stdout as a bisect log: as C31, but when bisectRange rejected
\* stdout holds nothing unless --log - made it a bisect log, and then
\* nothing but entries of results notified before the rejection.
C31_ExitCodeLogToStdout ==
  /\ ExitCodeOfBisect
  /\ called.state = "rejected" =>
       /\ ~IsLog(0) => written[0] = <<>>
       /\ \A k \in 1..Len(written[0]) :
            \E n \in 1..Len(results) : written[0][k] = EntriesOfResults[n]

\* --quiet --log -: a result was notified, bisectRange rejected, the command
\* returned 1 with the error on stderr and the entry of the result on stdout
C31_Witness ==
  /\ cpc = "done"
  /\ quiet = 1
  /\ logNames = <<"-">>
  /\ called.state = "rejected"
  /\ Len(results) = 1
  /\ stderr = <<"err2">>
  /\ written[0] = EntriesOfResults
  /\ exited = Resolved(Num(1))

\* --quiet: bisectRange rejected, the command returned 1 with the error on
\* stderr and nothing on stdout
C31_QuietWitness ==
  /\ cpc = "done"
  /\ quiet = 1
  /\ logNames = <<>>
  /\ called.state = "rejected"
  /\ stderr = <<"err2">>
  /\ written[0] = <<>>
  /\ exited = Resolved(Num(1))

====
